---- MODULE Spec2Model ----
(***************************************************************************)
(* Resilience core of vs-buddy: the CircuitBreaker class, withRetry and   *)
(* the LLM provider operations that compose them.                         *)
(*                                                                         *)
(* Time is the value of Date.now() in milliseconds; it advances in steps  *)
(* of TickMs.  An execute() call is split at its only suspension point,   *)
(* "await fn()": the part before it (canAttempt and the call of fn) is    *)
(* one action, the part after it (recordSuccess / recordFailure) another. *)
(***************************************************************************)
EXTENDS Integers, Sequences, FiniteSets, TLC

VARIABLES
    cb,             \* the CircuitBreaker instance under test (its private fields and options)
    inflight,       \* number of execute() calls suspended at "await fn()"
    now,            \* Date.now()
    last,           \* what the step just taken did: operation, outcome, whether fn was invoked
    observerCalls,  \* onStateChange invocations made by the step just taken
    consecFail,     \* ghost: failed completions since the latest success, reset() or construction
    consecSucc,     \* ghost: successful completions in HALF_OPEN since entering it or the latest failure
    retry,          \* a withRetry(fn, options) call: its locals and its position
    fnLog,          \* ghost: what fn did on each of its invocations by that call
    chatCircuitBreaker,       \* the provider module's breaker of chat()
    embeddingCircuitBreaker,  \* the provider module's breaker of embed()
    calls,          \* provider operations in progress, one per slot
    request,        \* the provider operation the step just taken belongs to, and
                    \* whether the step sent a request to the backend
    cache,          \* the similarity cache: the Map's entries in insertion order
    cacheCall,      \* the cache function the step just taken called, and what it returned
    written,        \* ghost: per key, the latest setCachedResults not yet cleared or evicted
    db,             \* the Document and Chunk tables
    search,         \* a searchRelevantChunks call in progress
    route,          \* a document route (ingest, upload, delete, bulk delete) in progress
    returned,       \* what the search that returned in the step just taken gave its caller
    stream,         \* a chatStream generator, its upstream and its consumer's signal
    turn,           \* a chat turn of the blocking or the streaming route
    chunker         \* a splitTextIntoChunks call: its locals and its position

vars == <<cb, inflight, now, last, observerCalls, consecFail, consecSucc,
          retry, fnLog, chatCircuitBreaker, embeddingCircuitBreaker, calls, request,
          cache, cacheCall, written, db, search, route, returned, stream, turn,
          chunker>>

breakerVars == <<cb, inflight, observerCalls, consecFail, consecSucc>>
retryVars == <<retry, fnLog>>
providerVars == <<chatCircuitBreaker, embeddingCircuitBreaker, calls, request>>
cacheVars == <<cache, cacheCall, written>>
searchVars == <<db, search, route, returned>>
ragVars == <<cacheVars, searchVars, stream, turn, chunker>>

(***************************************************************************)
(* Bounds of the model                                                     *)
(***************************************************************************)
MaxThreshold == 2      \* failureThreshold and successThreshold range over 1..MaxThreshold
MaxTimeoutTicks == 2   \* the timeout option ranges over 1..MaxTimeoutTicks ticks
MaxTicks == 5          \* Date.now() advances at most this many ticks
MaxInflight == 2       \* concurrent execute() calls suspended at await fn()
MaxFailureCount == 4   \* cap of failureCount, which the code never bounds

MaxAttemptsOpt == 3    \* the maxAttempts option ranges over 1..MaxAttemptsOpt
MaxCalls == 1          \* provider operations in progress at the same time
MaxProviderTicks == 1  \* Date.now() advances at most this many ticks while the provider runs
MaxProviderFailures == 5  \* cap of failureCount of the provider breakers
RandomSteps == 4       \* Math.random() ranges over k / RandomSteps, k in 0..RandomSteps-1

MaxTextLen == 6        \* the text given to splitTextIntoChunks has at most this many characters
MaxChunkSize == 5      \* config.chunkSize ranges over 1..MaxChunkSize
MaxChunkOverlap == 2   \* config.chunkOverlap ranges over 0..MaxChunkOverlap
MAX_CACHE_SIZE == 2    \* entries the cache holds: 100 in the code, lowered with the keys
KeyDims == 1           \* components of an embedding that make its key: 16 in the code
MaxLate == 1           \* the clock is followed until this many ms after the first expiry
MaxTopK == 2           \* the topK option ranges over 1..MaxTopK
SignatureLength == 1   \* characters of a chunk's signature: 100 in the code
MaxStreamChunks == 3   \* chunks one chatStream call yields
MaxLines == 2          \* lines one read of the Ollama response body holds
DocumentLength == 12   \* the document of 1200 characters, scaled by 100
DocumentChunkSize == 5 \* its chunkSize of 500, scaled by 100
DocumentChunkOverlap == 1  \* its chunkOverlap of 50, scaled and rounded up
MaxHistory == 3        \* history messages given to buildPrompt
MaxContext == 2        \* context chunks given to buildPrompt
MaxCandidates == 3     \* rows the similarity query returns to be deduplicated
SentenceWindow == 4    \* characters before the window's end searched for a sentence
                       \* boundary: 100 in the code, shortened with the texts

\* timeout of the providers' breakers, in milliseconds
BreakerTimeoutMs == 60000
\* the clock is observed every TickMs milliseconds
TickMs == BreakerTimeoutMs
\* 5 * 60 * 1000
CACHE_TTL_MS == 300000

(***************************************************************************)
(* CircuitBreaker (lib/resilience/circuit-breaker)                         *)
(***************************************************************************)
CircuitState == {"CLOSED", "OPEN", "HALF_OPEN"}

\* constructor: state CLOSED, counters 0, nextAttempt = Date.now().
\* The field notified accumulates the onStateChange invocations of the
\* operation in progress; it is empty between operations.
NewCircuitBreaker(options, t) ==
    [state |-> "CLOSED", failureCount |-> 0, successCount |-> 0,
     nextAttempt |-> t, options |-> options, notified |-> <<>>]

setState(b, newState) ==
    IF b.state # newState
    THEN [b EXCEPT !.state = newState,
                   !.notified = Append(@, <<b.state, newState>>)]
    ELSE b

\* recordSuccess closing only above the threshold (">" for ">=")
recordSuccess_strict(b) ==
    LET b1 == [b EXCEPT !.failureCount = 0] IN
    IF b1.state = "HALF_OPEN"
    THEN LET b2 == [b1 EXCEPT !.successCount = @ + 1] IN
         IF b2.successCount > b2.options.successThreshold
         THEN setState([b2 EXCEPT !.successCount = 0], "CLOSED")
         ELSE b2
    ELSE b1

\* recordSuccess counting in every state but CLOSED, so that a late success
\* can close an OPEN breaker
recordSuccess_anyState(b) ==
    LET b1 == [b EXCEPT !.failureCount = 0] IN
    IF b1.state # "CLOSED"
    THEN LET b2 == [b1 EXCEPT !.successCount = @ + 1] IN
         IF b2.successCount >= b2.options.successThreshold
         THEN setState([b2 EXCEPT !.successCount = 0], "CLOSED")
         ELSE b2
    ELSE b1

recordSuccess(b) ==
    LET b1 == [b EXCEPT !.failureCount = 0] IN
    IF b1.state = "HALF_OPEN"
    THEN LET b2 == [b1 EXCEPT !.successCount = @ + 1] IN
         IF b2.successCount >= b2.options.successThreshold
         THEN setState([b2 EXCEPT !.successCount = 0], "CLOSED")
         ELSE b2
    ELSE b1

\* recordFailure opening only above the threshold (">" for ">=")
recordFailure_strict(b, t) ==
    LET b1 == [b EXCEPT !.failureCount = @ + 1, !.successCount = 0] IN
    IF b1.failureCount > b1.options.failureThreshold
    THEN [setState(b1, "OPEN") EXCEPT !.nextAttempt = t + b1.options.timeout]
    ELSE b1

\* recordFailure that leaves successCount as it is
recordFailure_keepsSuccesses(b, t) ==
    LET b1 == [b EXCEPT !.failureCount = @ + 1] IN
    IF b1.failureCount >= b1.options.failureThreshold
    THEN [setState(b1, "OPEN") EXCEPT !.nextAttempt = t + b1.options.timeout]
    ELSE b1

recordFailure(b, t) ==
    LET b1 == [b EXCEPT !.failureCount = @ + 1, !.successCount = 0] IN
    IF b1.failureCount >= b1.options.failureThreshold
    THEN [setState(b1, "OPEN") EXCEPT !.nextAttempt = t + b1.options.timeout]
    ELSE b1

\* canAttempt that forgets to compare the clock with nextAttempt
canAttempt_noClock(b, t) ==
    IF b.state = "CLOSED" THEN [allowed |-> TRUE, cb |-> b]
    ELSE IF b.state = "OPEN"
         THEN [allowed |-> TRUE, cb |-> setState(b, "HALF_OPEN")]
         ELSE [allowed |-> TRUE, cb |-> b]

\* canAttempt that waits one instant too long (">" for ">=")
canAttempt_late(b, t) ==
    IF b.state = "CLOSED" THEN [allowed |-> TRUE, cb |-> b]
    ELSE IF b.state = "OPEN"
         THEN IF t > b.nextAttempt
              THEN [allowed |-> TRUE, cb |-> setState(b, "HALF_OPEN")]
              ELSE [allowed |-> FALSE, cb |-> b]
         ELSE [allowed |-> TRUE, cb |-> b]

\* canAttempt returns a boolean and may change the state (OPEN -> HALF_OPEN)
canAttempt(b, t) ==
    IF b.state = "CLOSED" THEN [allowed |-> TRUE, cb |-> b]
    ELSE IF b.state = "OPEN"
         THEN IF t >= b.nextAttempt
              THEN [allowed |-> TRUE, cb |-> setState(b, "HALF_OPEN")]
              ELSE [allowed |-> FALSE, cb |-> b]
         ELSE [allowed |-> TRUE, cb |-> b]

\* reset() assigns the fields directly; it does not go through setState
reset(b, t) ==
    [b EXCEPT !.state = "CLOSED", !.failureCount = 0, !.successCount = 0,
              !.nextAttempt = t]

\* the breaker as stored between operations
Settled(b) == [b EXCEPT !.notified = <<>>]

(***************************************************************************)
(* withRetry (lib/resilience/retry)                                        *)
(***************************************************************************)
Min(a, b) == IF a <= b THEN a ELSE b
Max(a, b) == IF a >= b THEN a ELSE b

RECURSIVE Pow(_, _)
Pow(base, e) == IF e <= 0 THEN 1 ELSE base * Pow(base, e - 1)

\* Values a rejected promise can carry.  status = 0 and code = "" stand for
\* an absent property.
Thrown(status, code) ==
    [falsy |-> FALSE, object |-> TRUE, status |-> status, code |-> code,
     message |-> "failure"]
UndefinedValue ==
    [falsy |-> TRUE, object |-> FALSE, status |-> 0, code |-> "", message |-> ""]
StringValue ==
    [falsy |-> FALSE, object |-> FALSE, status |-> 0, code |-> "", message |-> "failure"]
\* new Error(`Request timeout after ${opts.timeoutMs}ms`)
TimeoutError ==
    [falsy |-> FALSE, object |-> TRUE, status |-> 0, code |-> "",
     message |-> "Request timeout"]

ThrownValues ==
    {UndefinedValue, StringValue, Thrown(0, ""),
     Thrown(429, ""), Thrown(0, "rate_limit_exceeded"),
     Thrown(0, "ETIMEDOUT"), Thrown(0, "ECONNRESET"),
     Thrown(500, ""), Thrown(599, ""), Thrown(600, ""),
     Thrown(0, "ECONNREFUSED"), Thrown(0, "ENOTFOUND"),
     Thrown(400, ""), Thrown(404, ""), Thrown(499, ""), Thrown(404, "ECONNRESET")}

isRetryableError(error) ==
    IF error.falsy THEN FALSE
    ELSE IF error.object
    THEN IF error.status = 429 \/ error.code = "rate_limit_exceeded" THEN TRUE
         ELSE IF error.code = "ETIMEDOUT" \/ error.code = "ECONNRESET" THEN TRUE
         ELSE IF error.status >= 500 /\ error.status < 600 THEN TRUE
         ELSE IF error.code = "ECONNREFUSED" \/ error.code = "ENOTFOUND" THEN TRUE
         ELSE IF error.status >= 400 /\ error.status < 500 /\ error.status # 429
              THEN FALSE
              ELSE TRUE
    ELSE TRUE

\* options.shouldRetry ?? isRetryableError; the overriding predicates are
\* represented by the one that never retries
shouldRetry(policy, error, attempt) ==
    IF policy = "default" THEN isRetryableError(error) ELSE FALSE

\* rnd / RandomSteps is the value of Math.random(); amounts are whole
\* milliseconds (the fractional part of the jitter is dropped)
calculateDelay(attempt, initialDelay, maxDelay, multiplier, rnd) ==
    LET exponentialDelay == initialDelay * Pow(multiplier, attempt - 1)
        cappedDelay == Min(exponentialDelay, maxDelay)
        jitter == (cappedDelay * (2 * rnd - RandomSteps)) \div (4 * RandomSteps)
    IN  Max(0, cappedDelay + jitter)

NoError == [shape |-> UndefinedValue, origin |-> 0]
NoValue == [attempt |-> 0]

\* the call before it starts
IdleRetry(opts) ==
    [pc |-> "idle", opts |-> opts, attempt |-> 0, invocations |-> 0,
     lastError |-> NoError, delayMs |-> 0, result |-> NoValue, thrown |-> NoError]

\* entry of withRetry: attempt = 1 and the first fn() inside Promise.race
retryStart(r) ==
    [r EXCEPT !.pc = "attempt", !.attempt = 1, !.invocations = @ + 1]

\* withRetry giving up one attempt early
retrySettle_early(r, outcome, rnd) ==
    IF outcome.kind = "resolve"
    THEN [r EXCEPT !.pc = "returned", !.result = [attempt |-> r.attempt]]
    ELSE LET error == [shape |-> IF outcome.kind = "timeout" THEN TimeoutError
                                 ELSE outcome.error,
                       origin |-> r.attempt]
             r1 == [r EXCEPT !.lastError = error]
             isLastAttempt == r.attempt + 1 >= r.opts.maxAttempts
             shouldRetryThis == shouldRetry(r.opts.shouldRetry, error.shape, r.attempt)
         IN  IF isLastAttempt \/ ~shouldRetryThis
             THEN [r1 EXCEPT !.pc = "thrown", !.thrown = error]
             ELSE [r1 EXCEPT !.pc = "sleep",
                             !.delayMs = calculateDelay(r.attempt, r.opts.initialDelayMs,
                                                        r.opts.maxDelayMs,
                                                        r.opts.backoffMultiplier, rnd)]

\* the race settles.  outcome.kind is "resolve" (fn resolved first),
\* "reject" (fn rejected first, with outcome.error) or "timeout" (the timer
\* fired first).  The value fn resolves with on invocation i is [attempt |-> i];
\* an error keeps the number of the attempt it comes from.
retrySettle(r, outcome, rnd) ==
    IF outcome.kind = "resolve"
    THEN [r EXCEPT !.pc = "returned", !.result = [attempt |-> r.attempt]]
    ELSE LET error == [shape |-> IF outcome.kind = "timeout" THEN TimeoutError
                                 ELSE outcome.error,
                       origin |-> r.attempt]
             r1 == [r EXCEPT !.lastError = error]
             isLastAttempt == r.attempt = r.opts.maxAttempts
             shouldRetryThis == shouldRetry(r.opts.shouldRetry, error.shape, r.attempt)
         IN  IF isLastAttempt \/ ~shouldRetryThis
             THEN [r1 EXCEPT !.pc = "thrown", !.thrown = error]
             ELSE [r1 EXCEPT !.pc = "sleep",
                             !.delayMs = calculateDelay(r.attempt, r.opts.initialDelayMs,
                                                        r.opts.maxDelayMs,
                                                        r.opts.backoffMultiplier, rnd)]

\* sleep(delayMs) is over: delayMs goes out of scope with the catch block,
\* attempt++ and the next fn()
retryWake(r) ==
    [r EXCEPT !.pc = "attempt", !.attempt = @ + 1, !.invocations = @ + 1,
              !.delayMs = 0]

\* the late result of attempt i taken as the result of the call
lateSettlement_adopted(r, i, kind) ==
    IF kind = "resolve" /\ r.pc \in {"attempt", "sleep"}
    THEN [r EXCEPT !.pc = "returned", !.result = [attempt |-> i]]
    ELSE r

\* fn's promise of attempt i settles after the timer has won Promise.race:
\* the race is settled already and nothing else holds the promise, so the
\* call is where it was
lateSettlement(r, i, kind) == r

(***************************************************************************)
(* LLM provider (lib/llm/ollama, lib/llm/openai): chat, chatStream, embed  *)
(***************************************************************************)
\* new CircuitBreaker({failureThreshold: 5, successThreshold: 2, timeout: 60000})
ProviderBreakerOptions ==
    [failureThreshold |-> 5, successThreshold |-> 2, timeout |-> BreakerTimeoutMs]

\* the options chat() and embed() pass to withRetry
ProviderRetryOptions ==
    [maxAttempts |-> 3, initialDelayMs |-> 1000, maxDelayMs |-> 10000,
     backoffMultiplier |-> 2, shouldRetry |-> "default"]

\* a new operation takes the first free slot
FreeSlot(c) ==
    /\ calls[c].op = "none"
    /\ \A d \in 1..(c - 1) : calls[d].op # "none"

NoRequest == [op |-> "none", sent |-> FALSE, attempt |-> 0]
NoCall == [op |-> "none", retry |-> IdleRetry(ProviderRetryOptions)]

IdleProvider ==
    /\ chatCircuitBreaker = NewCircuitBreaker(ProviderBreakerOptions, 0)
    /\ embeddingCircuitBreaker = NewCircuitBreaker(ProviderBreakerOptions, 0)
    /\ calls = [c \in 1..MaxCalls |-> NoCall]
    /\ request = NoRequest

\* what the backend does with one attempt of chat() or embed(): an answer, no
\* answer within timeoutMs, a failure without HTTP status (retryable), a 400
ProviderOutcomes ==
    {[kind |-> "resolve", error |-> UndefinedValue],
     [kind |-> "timeout", error |-> UndefinedValue],
     [kind |-> "reject", error |-> Thrown(0, "")],
     [kind |-> "reject", error |-> Thrown(400, "")]}

\* the composition the other way round, withRetry(() => breaker.execute(...)):
\* every failed attempt is recorded
executeWithRetry_perAttempt(b, r, t) ==
    IF r.pc = "returned" THEN recordSuccess(b)
    ELSE recordFailure(b, t)

\* breaker.execute(() => withRetry(...)): what execute does to the breaker
\* once an attempt of the wrapped withRetry has settled, leaving it at r
executeWithRetry(b, r, t) ==
    IF r.pc = "returned" THEN recordSuccess(b)
    ELSE IF r.pc = "thrown" THEN recordFailure(b, t)
    ELSE b

(***************************************************************************)
(* Strings: a string is the sequence of its characters                     *)
(***************************************************************************)
\* the characters texts are made of: a letter in both cases, sentence
\* punctuation and whitespace
Chars == {"a", "A", ".", " "}
Whitespace == {" "}
Uppercase == {"A"}
SentencePunctuation == {"."}

\* String.prototype.slice(from, to) with 0 <= from, indices counted from 0
Slice(s, from, to) == SubSeq(s, from + 1, Min(to, Len(s)))

RECURSIVE TrimStart(_)
TrimStart(s) ==
    IF s = <<>> THEN s
    ELSE IF Head(s) \in Whitespace THEN TrimStart(Tail(s)) ELSE s

RECURSIVE TrimEnd(_)
TrimEnd(s) ==
    IF s = <<>> THEN s
    ELSE IF s[Len(s)] \in Whitespace THEN TrimEnd(SubSeq(s, 1, Len(s) - 1)) ELSE s

\* String.prototype.trim()
Trim(s) == TrimEnd(TrimStart(s))

\* replace(/\s+/g, ' '): every run of whitespace becomes one space
RECURSIVE CollapseWhitespace(_)
CollapseWhitespace(s) ==
    IF s = <<>> THEN s
    ELSE IF Head(s) \in Whitespace
         THEN <<" ">> \o CollapseWhitespace(TrimStart(Tail(s)))
         ELSE <<Head(s)>> \o CollapseWhitespace(Tail(s))

\* String.prototype.toLowerCase()
ToLowerCase(s) ==
    [i \in 1..Len(s) |-> IF s[i] = "A" THEN "a" ELSE IF s[i] = "B" THEN "b" ELSE s[i]]

\* lastIndexOf: the greatest index (from 0) at most fromIndex where the
\* character ch stands, -1 if there is none
LastIndexOfChar(s, ch, fromIndex) ==
    LET found == {j \in 0..Min(fromIndex, Len(s) - 1) : s[j + 1] = ch}
    IN  IF found = {} THEN -1 ELSE CHOOSE j \in found : \A k \in found : k <= j

\* the strings of at most n characters
StringsUpTo(n) == UNION {[1..k -> Chars] : k \in 0..n}

(***************************************************************************)
(* splitTextIntoChunks (lib/rag/chunk)                                     *)
(***************************************************************************)
\* the call before it runs: its argument and the configuration it reads
NewChunker(text, chunkSize, chunkOverlap) ==
    [pc |-> "called", text |-> text, chunkSize |-> chunkSize,
     chunkOverlap |-> chunkOverlap, cleanedText |-> <<>>, start |-> 0,
     chunks |-> <<>>, iterations |-> 0]

\* the call up to the loop: the text is normalized, a short text is returned
\* as the only chunk
splitBegin(c) ==
    LET cleanedText == Trim(CollapseWhitespace(c.text)) IN
    IF Len(cleanedText) <= c.chunkSize
    THEN [c EXCEPT !.pc = "returned", !.cleanedText = cleanedText,
                   !.chunks = <<cleanedText>>]
    ELSE [c EXCEPT !.pc = "loop", !.cleanedText = cleanedText, !.start = 0]

\* where the window starting at start ends: at the last sentence boundary of
\* its last SentenceWindow characters, else at its last space, else at
\* start + chunkSize
windowEnd(c) ==
    LET text == c.cleanedText
        end == c.start + c.chunkSize
    IN  IF end < Len(text)
        THEN LET base == Max(c.start, end - SentenceWindow)
                 lastPart == Slice(text, base, end)
                 \* the matches of /[.!?]\s+(?=[A-Z])/g, by their index in lastPart
                 sentenceMatch ==
                     {i \in 0..(Len(lastPart) - 3) :
                         /\ lastPart[i + 1] \in SentencePunctuation
                         /\ lastPart[i + 2] \in Whitespace
                         /\ lastPart[i + 3] \in Uppercase}
             IN  IF sentenceMatch # {}
                 THEN LET m == CHOOSE i \in sentenceMatch :
                                   \A k \in sentenceMatch : k <= i
                          \* lastPart.lastIndexOf(the text of the last match)
                          occurrences ==
                              {j \in 0..(Len(lastPart) - 2) :
                                  /\ lastPart[j + 1] = lastPart[m + 1]
                                  /\ lastPart[j + 2] = lastPart[m + 2]}
                          lastSentenceEnd ==
                              CHOOSE j \in occurrences : \A k \in occurrences : k <= j
                      IN  IF lastSentenceEnd > 0 THEN base + lastSentenceEnd + 2 ELSE end
                 ELSE LET lastSpace == LastIndexOfChar(text, " ", end)
                      IN  IF lastSpace > c.start THEN lastSpace ELSE end
        ELSE end

\* the loop moving on by end - chunkOverlap whether or not that is progress
splitStep_noGuard(c) ==
    LET end == windowEnd(c)
        chunk == Trim(Slice(c.cleanedText, c.start, end))
        nextStart == end - c.chunkOverlap
    IN  [c EXCEPT !.chunks = IF Len(chunk) > 0 THEN Append(@, chunk) ELSE @,
                  !.start = nextStart,
                  !.iterations = @ + 1,
                  !.pc = IF nextStart < Len(c.cleanedText) THEN "loop" ELSE "returned"]

\* the loop cutting at start + chunkSize + 1
splitStep_long(c) ==
    LET end == windowEnd(c) + 1
        chunk == Trim(Slice(c.cleanedText, c.start, end))
        nextStart == end - c.chunkOverlap
        start == IF nextStart > c.start THEN nextStart ELSE end
    IN  [c EXCEPT !.chunks = IF Len(chunk) > 0 THEN Append(@, chunk) ELSE @,
                  !.start = start,
                  !.iterations = @ + 1,
                  !.pc = IF start < Len(c.cleanedText) THEN "loop" ELSE "returned"]

\* one iteration of the while loop, and the loop's test after it
splitStep(c) ==
    LET end == windowEnd(c)
        chunk == Trim(Slice(c.cleanedText, c.start, end))
        nextStart == end - c.chunkOverlap
        start == IF nextStart > c.start THEN nextStart ELSE end
    IN  [c EXCEPT !.chunks = IF Len(chunk) > 0 THEN Append(@, chunk) ELSE @,
                  !.start = start,
                  !.iterations = @ + 1,
                  !.pc = IF start < Len(c.cleanedText) THEN "loop" ELSE "returned"]

IdleChunker == chunker = NewChunker(<<>>, 1, 0)

(***************************************************************************)
(* Similarity cache (lib/rag/cache)                                        *)
(***************************************************************************)
\* An embedding is the sequence of its components in ten-thousandths.  Two
\* of these have the same first component after rounding, one is empty.
Embeddings == {<<>>, <<4>>, <<-5, 15>>, <<5>>}

\* Math.round(v * 1000): halves go up
Round1000(v) == (v + 5) \div 10

\* slice(0, KeyDims).map(round).join(','): the key is the sequence of the
\* rounded components; the empty sequence is the empty string
getCacheKey(embedding) ==
    [i \in 1..Min(KeyDims, Len(embedding)) |-> Round1000(embedding[i])]

CacheKeys == {getCacheKey(e) : e \in Embeddings}

\* what getCachedResults returns: null, or the results of the entry
Null == [hit |-> FALSE, results |-> <<>>]
Found(results) == [hit |-> TRUE, results |-> results]

\* Map.prototype.get, delete and set on the entries in insertion order
cacheHas(c, key) == \E i \in 1..Len(c) : c[i].key = key
cacheGet(c, key) == c[CHOOSE i \in 1..Len(c) : c[i].key = key]
cacheDelete(c, key) == SelectSeq(c, LAMBDA entry : entry.key # key)
cachePut(c, entry) ==
    IF cacheHas(c, entry.key)
    THEN [i \in 1..Len(c) |-> IF c[i].key = entry.key THEN entry ELSE c[i]]
    ELSE Append(c, entry)

\* getCachedResults taking the entry for expired one millisecond early
getCachedResults_early(c, embedding, t) ==
    LET key == getCacheKey(embedding) IN
    IF ~cacheHas(c, key) THEN [value |-> Null, cache |-> c]
    ELSE IF t - cacheGet(c, key).timestamp >= CACHE_TTL_MS
         THEN [value |-> Null, cache |-> cacheDelete(c, key)]
         ELSE [value |-> Found(cacheGet(c, key).results), cache |-> c]

\* getCachedResults returns a value and may delete the entry it read
getCachedResults(c, embedding, t) ==
    LET key == getCacheKey(embedding) IN
    IF ~cacheHas(c, key) THEN [value |-> Null, cache |-> c]
    ELSE IF t - cacheGet(c, key).timestamp > CACHE_TTL_MS
         THEN [value |-> Null, cache |-> cacheDelete(c, key)]
         ELSE [value |-> Found(cacheGet(c, key).results), cache |-> c]

\* setCachedResults; evicted is the set of keys it removed to make room.
\* "if (oldestKey)" is false for the empty string.
setCachedResults(c, embedding, results, t) ==
    LET full == Len(c) >= MAX_CACHE_SIZE
        deleted == IF full /\ Len(c) > 0 /\ c[1].key # <<>> THEN {c[1].key} ELSE {}
        c1 == IF deleted # {} THEN Tail(c) ELSE c
    IN  [cache |-> cachePut(c1, [key |-> getCacheKey(embedding), results |-> results,
                                 timestamp |-> t]),
         evicted |-> deleted]

clearCache(c) == <<>>

\* ghost: what the latest setCachedResults of a key stored, until the key
\* is cleared or evicted
NotWritten == [set |-> FALSE, results |-> <<>>, timestamp |-> 0, byOptions |-> <<>>]
noteWritten(w, embedding, results, t, evicted, options) ==
    [k \in CacheKeys |->
        IF k = getCacheKey(embedding)
        THEN [set |-> TRUE, results |-> results, timestamp |-> t, byOptions |-> <<options>>]
        ELSE IF k \in evicted THEN NotWritten ELSE w[k]]

NoCacheCall == [op |-> "none", embedding |-> <<>>, value |-> Null]

IdleCache ==
    /\ cache = <<>>
    /\ cacheCall = NoCacheCall
    /\ written = [k \in CacheKeys |-> NotWritten]

(***************************************************************************)
(* Retrieval (lib/rag/search) over the Document and Chunk tables           *)
(***************************************************************************)
Docs == {"d1", "d2"}

\* The chunks the documents are split into when ingested, with the cosine
\* similarity (in tenths) the database computes between each and a query
\* embedding.  The first two have the same signature.
Corpus ==
    {[id |-> "d1-chunk-0", documentId |-> "d1", documentTitle |-> "t1",
      content |-> <<"A", "b", " ", "a">>, similarity |-> 9],
     [id |-> "d1-chunk-1", documentId |-> "d1", documentTitle |-> "t1",
      content |-> <<"a", "b", "A">>, similarity |-> 7],
     [id |-> "d2-chunk-0", documentId |-> "d2", documentTitle |-> "t2",
      content |-> <<"b", ".", " ">>, similarity |-> 6]}

ChunksOf(docs) == {c \in Corpus : c.documentId \in docs}

\* the options of a call: topK, minSimilarity (in tenths), documentIds (the
\* tags filter behaves alike) and useCache, which no caller passes and so
\* has its default
SearchOptions ==
    [topK : 1..MaxTopK, minSimilarity : {4, 8}, documentIds : {{}, {"d1"}},
     useCache : {TRUE}]

\* what the chat routes pass: config.defaultTopK and config.minSimilarity
DefaultSearchOptions ==
    [topK |-> MaxTopK, minSimilarity |-> 4, documentIds |-> {}, useCache |-> TRUE]

\* useCache && !tags?.length && !documentIds?.length
usesCache(options) == options.useCache /\ options.documentIds = {}

\* ORDER BY distance: the most similar first
RECURSIVE BySimilarity(_)
BySimilarity(chunks) ==
    IF chunks = {} THEN <<>>
    ELSE LET top == CHOOSE c \in chunks : \A d \in chunks : d.similarity <= c.similarity
         IN  <<top>> \o BySimilarity(chunks \ {top})

\* the SELECT of searchRelevantChunks run on the tables as they are
similarityQuery(tables, options) ==
    LET matching == {c \in tables.chunks :
                        /\ c.documentId \in tables.documents
                        /\ c.similarity >= options.minSimilarity
                        /\ (options.documentIds # {} =>
                                c.documentId \in options.documentIds)}
    IN  Slice(BySimilarity(matching), 0, options.topK * 2)

\* the first SignatureLength characters of the normalized content
signature(content) ==
    Slice(Trim(CollapseWhitespace(ToLowerCase(content))), 0, SignatureLength)

RECURSIVE filterUnseen(_, _)
filterUnseen(chunks, seen) ==
    IF chunks = <<>> THEN <<>>
    ELSE LET key == signature(Head(chunks).content) IN
         IF key \in seen THEN filterUnseen(Tail(chunks), seen)
         ELSE <<Head(chunks)>> \o filterUnseen(Tail(chunks), seen \cup {key})

RECURSIVE filterUnseenContent(_, _)
filterUnseenContent(chunks, seen) ==
    IF chunks = <<>> THEN <<>>
    ELSE LET key == Slice(Head(chunks).content, 0, SignatureLength) IN
         IF key \in seen THEN filterUnseenContent(Tail(chunks), seen)
         ELSE <<Head(chunks)>> \o filterUnseenContent(Tail(chunks), seen \cup {key})

\* deduplicateChunks comparing the contents without normalizing them
deduplicateChunks_raw(chunks) == filterUnseenContent(chunks, {})

deduplicateChunks(chunks) == filterUnseen(chunks, {})

\* from the rows of the query to the value returned
finalResults(rows, options) == Slice(deduplicateChunks(rows), 0, options.topK)

NoSearch == [pc |-> "idle", embedding |-> <<>>, options |-> DefaultSearchOptions,
             rows |-> <<>>]
NoRoute == [op |-> "none", pc |-> "idle", ids |-> {}]
NothingReturned == [kind |-> "none", embedding |-> <<>>,
                    options |-> DefaultSearchOptions, results |-> <<>>,
                    queried |-> FALSE, rows |-> <<>>]
EmptyTables == [documents |-> {}, chunks |-> {}, deleted |-> {}]

IdleSearch ==
    /\ db = EmptyTables
    /\ search = NoSearch
    /\ route = NoRoute
    /\ returned = NothingReturned

(***************************************************************************)
(* chatStream of the two providers: an async generator between its         *)
(* suspension points (the request, the wait for upstream data, a yield)    *)
(***************************************************************************)
Providers == {"openai", "ollama"}

\* options.signal: absent, not fired, fired
Signals == {"none", "live", "aborted"}

\* an upstream chunk of the OpenAI stream: finish_reason null, finish_reason
\* set, or a chunk without choices
OpenAIChunks == {"delta", "finish", "nochoice"}

\* a line of the Ollama response: done false, done true, or blank/malformed
OllamaLines == {"chunk", "done", "bad"}

NoStream == [pc |-> "idle", provider |-> "openai", signal |-> "none",
             lines |-> <<>>, lastDone |-> FALSE, yielded |-> 0, cause |-> "none"]

chatStream(provider, signal) ==
    [NoStream EXCEPT !.pc = "request", !.provider = provider, !.signal = signal]

\* handleOpenAIError / handleOllamaError: always rethrow
streamThrows(s, cause) == [s EXCEPT !.pc = "thrown", !.cause = cause, !.lines = <<>>]

streamYields(s, done, rest) ==
    [s EXCEPT !.pc = "yielded", !.lastDone = done, !.yielded = @ + 1, !.lines = rest]

streamCompletes(s) == [s EXCEPT !.pc = "completed", !.lines = <<>>]

\* OpenAI: the body of the for-await loop for one upstream chunk
openaiChunk(s, chunk) ==
    IF s.signal = "aborted" THEN streamCompletes(s)
    ELSE streamYields(s, chunk # "delta", <<>>)

\* Ollama: the for-loop over the lines of one read, up to its next yield
RECURSIVE ollamaLines(_, _)
ollamaLines(s, lines) ==
    IF lines = <<>> THEN [s EXCEPT !.pc = "waiting", !.lines = <<>>]
    ELSE IF Head(lines) = "bad" THEN ollamaLines(s, Tail(lines))
    ELSE streamYields(s, Head(lines) = "done", Tail(lines))

\* the consumer asks for the next chunk: the generator resumes after its yield
streamResumes(s) ==
    IF s.lastDone THEN streamCompletes(s)
    ELSE IF s.provider = "openai" THEN [s EXCEPT !.pc = "waiting"]
    ELSE ollamaLines(s, s.lines)

\* fetch and the body reader reject once the signal they were given fired;
\* the OpenAI request is not given the signal
rejectsOnAbort(s) == s.provider = "ollama" /\ s.signal = "aborted"

streamActive(s) == s.pc \in {"request", "waiting", "yielded"}

IdleStream == stream = NoStream
(***************************************************************************)
(* One chat turn of POST /api/chat (blocking) or POST /api/chat/stream,    *)
(* between its awaits                                                      *)
(***************************************************************************)
TurnKinds == {"blocking", "stream"}

\* what searchRelevantChunks can resolve with for the turn
Contexts == {<<>>, <<"d1-chunk-0">>}

\* the prompt before buildPrompt
NotBuilt == [built |-> FALSE, contextChunks |-> <<>>]

NoTurn == [pc |-> "idle", kind |-> "blocking", context |-> <<>>,
           prompt |-> NotBuilt, retrievalFailed |-> FALSE,
           steps |-> <<>>, assistantMessages |-> 0, generation |-> "none",
           response |-> "none", events |-> {}, failedAt |-> "none"]

\* the outer catch: handleApiError (blocking) or the 500 JSON response
\* (stream)
turnFails(t, at) == [t EXCEPT !.pc = "done", !.response = "error", !.failedAt = at]

\* the failure taken by the outer catch, without the inner try
retrievalFails_fatal(t) == turnFails([t EXCEPT !.retrievalFailed = TRUE], "retrieval")

\* the catch around embedText and searchRelevantChunks: log and go on with
\* relevantChunks as it was declared, empty
retrievalFails(t) == [t EXCEPT !.pc = "history", !.retrievalFailed = TRUE]

\* the assistant message created for every chunk
persistsOn_every(done) == TRUE

\* stream route: the assistant message is created for the chunk with done
persistsOn(done) == done

IdleTurn == turn = NoTurn

\* the retrieval side at rest
IdleRag ==
    /\ IdleCache
    /\ IdleSearch
    /\ IdleStream
    /\ IdleTurn
    /\ IdleChunker

(***************************************************************************)
(* One withRetry call on a function with arbitrary behaviour               *)
(***************************************************************************)
DefaultRetryOptions ==
    [maxAttempts |-> 3, initialDelayMs |-> 1000, maxDelayMs |-> 10000,
     backoffMultiplier |-> 2, shouldRetry |-> "default"]

RetryOptions ==
    [maxAttempts : 1..MaxAttemptsOpt,
     initialDelayMs : {0, 1000},
     maxDelayMs : {160, 10000},
     backoffMultiplier : {1, 2},
     shouldRetry : {"default", "never"}]

Outcomes ==
    {[kind |-> "resolve", error |-> UndefinedValue],
     [kind |-> "timeout", error |-> UndefinedValue]}
    \cup {[kind |-> "reject", error |-> e] : e \in ThrownValues}

IdleBreaker ==
    /\ cb = NewCircuitBreaker([failureThreshold |-> 5, successThreshold |-> 2,
                               timeout |-> 60000], 0)
    /\ inflight = 0
    /\ observerCalls = <<>>
    /\ consecFail = 0
    /\ consecSucc = 0

InitRetry ==
    /\ now = 0
    /\ IdleBreaker
    /\ last = [op |-> "new", outcome |-> "none", fnInvoked |-> FALSE]
    /\ \E o \in RetryOptions : retry = IdleRetry(o)
    /\ fnLog = <<>>
    /\ IdleProvider
    /\ IdleRag

WithRetryCall ==
    /\ retry.pc = "idle"
    /\ retry' = retryStart(retry)
    /\ last' = [op |-> "withRetry", outcome |-> "none", fnInvoked |-> TRUE]
    /\ UNCHANGED <<ragVars, now, breakerVars, fnLog, providerVars>>

AttemptSettles ==
    /\ retry.pc = "attempt"
    /\ \E outcome \in Outcomes, rnd \in 0..(RandomSteps - 1) :
        /\ retry' = retrySettle(retry, outcome, rnd)
        /\ fnLog' = Append(fnLog, outcome)
        /\ last' = [op |-> "settled", outcome |-> outcome.kind, fnInvoked |-> FALSE]
    /\ UNCHANGED <<ragVars, now, breakerVars, providerVars>>

SleepOver ==
    /\ retry.pc = "sleep"
    /\ retry' = retryWake(retry)
    /\ last' = [op |-> "wake", outcome |-> "none", fnInvoked |-> TRUE]
    /\ UNCHANGED <<ragVars, now, breakerVars, fnLog, providerVars>>

NextRetry ==
    \/ WithRetryCall
    \/ AttemptSettles
    \/ SleepOver

SpecRetry == InitRetry /\ [][NextRetry]_vars

\* The function of an attempt that timed out keeps running (nothing cancels
\* it) and settles by itself later, at any time, the call being over or not.
\* fnLog keeps for each attempt what became of it: "late" is a timed-out
\* attempt whose function has settled since.
LateSettlement ==
    /\ \E i \in 1..Len(fnLog), kind \in {"resolve", "reject"} :
        /\ fnLog[i].kind = "timeout"
        /\ retry' = lateSettlement(retry, i, kind)
        /\ fnLog' = [fnLog EXCEPT ![i].kind = "late"]
        /\ last' = [op |-> "late", outcome |-> kind, fnInvoked |-> FALSE]
    /\ UNCHANGED <<ragVars, now, breakerVars, providerVars>>

NextRetryRace ==
    \/ NextRetry
    \/ LateSettlement

SpecRetryRace == InitRetry /\ [][NextRetryRace]_vars

(***************************************************************************)
(* A single CircuitBreaker driven by concurrent execute() calls and reset  *)
(***************************************************************************)
BreakerOptions ==
    [failureThreshold : 1..MaxThreshold,
     successThreshold : 1..MaxThreshold,
     timeout : {TickMs * k : k \in 1..MaxTimeoutTicks}]

InitBreaker ==
    /\ now = 0
    /\ \E o \in BreakerOptions : cb = NewCircuitBreaker(o, 0)
    /\ inflight = 0
    /\ last = [op |-> "new", outcome |-> "none", fnInvoked |-> FALSE]
    /\ observerCalls = <<>>
    /\ consecFail = 0
    /\ consecSucc = 0
    /\ retry = IdleRetry(DefaultRetryOptions)
    /\ fnLog = <<>>
    /\ IdleProvider
    /\ IdleRag

\* execute(fn) up to "await fn()": canAttempt, then either the rejection
\* with the 'Circuit breaker is OPEN' error or the call of fn
ExecuteCall ==
    /\ LET r == canAttempt(cb, now) IN
        /\ r.allowed => inflight < MaxInflight
        /\ cb' = Settled(r.cb)
        /\ observerCalls' = r.cb.notified
        /\ inflight' = IF r.allowed THEN inflight + 1 ELSE inflight
        /\ last' = [op |-> "execute",
                    outcome |-> IF r.allowed THEN "passed" ELSE "CircuitOpen",
                    fnInvoked |-> r.allowed]
        /\ consecSucc' = IF cb.state # "HALF_OPEN" /\ r.cb.state = "HALF_OPEN"
                         THEN 0 ELSE consecSucc
    /\ UNCHANGED <<ragVars, now, consecFail, retryVars, providerVars>>

\* execute(fn) after fn resolved: recordSuccess, return result
FnResolved ==
    /\ inflight > 0
    /\ LET b == recordSuccess(cb) IN
        /\ cb' = Settled(b)
        /\ observerCalls' = b.notified
    /\ inflight' = inflight - 1
    /\ last' = [op |-> "resolved", outcome |-> "result", fnInvoked |-> FALSE]
    /\ consecFail' = 0
    /\ consecSucc' = IF cb.state = "HALF_OPEN" THEN consecSucc + 1 ELSE consecSucc
    /\ UNCHANGED <<ragVars, now, retryVars, providerVars>>

\* execute(fn) after fn rejected: recordFailure, rethrow
FnRejected ==
    /\ inflight > 0
    /\ cb.failureCount < MaxFailureCount
    /\ LET b == recordFailure(cb, now) IN
        /\ cb' = Settled(b)
        /\ observerCalls' = b.notified
    /\ inflight' = inflight - 1
    /\ last' = [op |-> "rejected", outcome |-> "error", fnInvoked |-> FALSE]
    /\ consecFail' = consecFail + 1
    /\ consecSucc' = 0
    /\ UNCHANGED <<ragVars, now, retryVars, providerVars>>

Reset ==
    /\ LET b == reset(cb, now) IN
        /\ cb' = Settled(b)
        /\ observerCalls' = b.notified
    /\ last' = [op |-> "reset", outcome |-> "none", fnInvoked |-> FALSE]
    /\ consecFail' = 0
    /\ consecSucc' = 0
    /\ UNCHANGED <<ragVars, now, inflight, retryVars, providerVars>>

Tick ==
    /\ now < MaxTicks * TickMs
    /\ now' = now + TickMs
    /\ last' = [op |-> "tick", outcome |-> "none", fnInvoked |-> FALSE]
    /\ observerCalls' = <<>>
    /\ request' = NoRequest
    /\ UNCHANGED <<ragVars, cb, inflight, consecFail, consecSucc, retryVars,
                   chatCircuitBreaker, embeddingCircuitBreaker, calls>>

NextBreaker ==
    \/ ExecuteCall
    \/ FnResolved
    \/ FnRejected
    \/ Reset
    \/ Tick

SpecBreaker == InitBreaker /\ [][NextBreaker]_vars

TypeOKBreaker ==
    /\ cb.state \in CircuitState
    /\ cb.failureCount \in 0..MaxFailureCount
    /\ cb.successCount \in 0..MaxThreshold
    /\ inflight \in 0..MaxInflight
(***************************************************************************)
(* The provider's operations, called concurrently by the routes            *)
(***************************************************************************)
InitProvider ==
    /\ now = 0
    /\ IdleBreaker
    /\ last = [op |-> "new", outcome |-> "none", fnInvoked |-> FALSE]
    /\ retry = IdleRetry(DefaultRetryOptions)
    /\ fnLog = <<>>
    /\ IdleProvider
    /\ IdleRag

\* chat(): chatCircuitBreaker.execute(() => withRetry(...)) up to the first
\* await; a rejection by the breaker goes to the provider's error handler
Chat ==
    /\ LET a == canAttempt(chatCircuitBreaker, now) IN
        /\ chatCircuitBreaker' = Settled(a.cb)
        /\ IF a.allowed
           THEN \E c \in 1..MaxCalls :
                   /\ FreeSlot(c)
                   /\ calls' = [calls EXCEPT ![c] =
                                   [op |-> "chat", retry |-> retryStart(NoCall.retry)]]
           ELSE calls' = calls
        /\ request' = [op |-> "chat", sent |-> a.allowed,
                       attempt |-> IF a.allowed THEN 1 ELSE 0]
        /\ last' = [op |-> "call",
                    outcome |-> IF a.allowed THEN "passed" ELSE "CircuitOpen",
                    fnInvoked |-> a.allowed]
    /\ UNCHANGED <<ragVars, now, breakerVars, retryVars, embeddingCircuitBreaker>>

\* embed(texts) with texts non-empty
Embed ==
    /\ LET a == canAttempt(embeddingCircuitBreaker, now) IN
        /\ embeddingCircuitBreaker' = Settled(a.cb)
        /\ IF a.allowed
           THEN \E c \in 1..MaxCalls :
                   /\ FreeSlot(c)
                   /\ calls' = [calls EXCEPT ![c] =
                                   [op |-> "embed", retry |-> retryStart(NoCall.retry)]]
           ELSE calls' = calls
        /\ request' = [op |-> "embed", sent |-> a.allowed,
                       attempt |-> IF a.allowed THEN 1 ELSE 0]
        /\ last' = [op |-> "call",
                    outcome |-> IF a.allowed THEN "passed" ELSE "CircuitOpen",
                    fnInvoked |-> a.allowed]
    /\ UNCHANGED <<ragVars, now, breakerVars, retryVars, chatCircuitBreaker>>

\* embed([]) returns [] at once
EmbedNothing ==
    /\ request' = [op |-> "embed", sent |-> FALSE, attempt |-> 0]
    /\ last' = [op |-> "call", outcome |-> "empty", fnInvoked |-> FALSE]
    /\ UNCHANGED <<ragVars, now, breakerVars, retryVars, chatCircuitBreaker,
                   embeddingCircuitBreaker, calls>>

\* an attempt of chat() or embed() settles: the catch block of withRetry
\* and, when withRetry itself settles, the rest of execute()
ProviderAttemptSettles(c) ==
    /\ calls[c].op \in {"chat", "embed"}
    /\ calls[c].retry.pc = "attempt"
    /\ \E outcome \in ProviderOutcomes :
        \* the jitter only decides delayMs, which is dropped below
        LET r == retrySettle(calls[c].retry, outcome, 0)
            b == IF calls[c].op = "chat" THEN chatCircuitBreaker
                 ELSE embeddingCircuitBreaker
            b2 == Settled(executeWithRetry(b, r, now))
        IN  /\ r.pc = "thrown" => b.failureCount < MaxProviderFailures
            /\ chatCircuitBreaker' =
                   IF calls[c].op = "chat" THEN b2 ELSE chatCircuitBreaker
            /\ embeddingCircuitBreaker' =
                   IF calls[c].op = "embed" THEN b2 ELSE embeddingCircuitBreaker
            \* delayMs is not read again once sleep(delayMs) has been called
            /\ calls' = [calls EXCEPT ![c] =
                            IF r.pc = "sleep"
                            THEN [@ EXCEPT !.retry = [r EXCEPT !.delayMs = 0]]
                            ELSE NoCall]
            /\ request' = [op |-> calls[c].op, sent |-> FALSE, attempt |-> r.attempt]
            /\ last' = [op |-> "settled", outcome |-> r.pc, fnInvoked |-> FALSE]
    /\ UNCHANGED <<ragVars, now, breakerVars, retryVars>>

\* the sleep of withRetry is over: the next attempt goes to the backend
ProviderRetries(c) ==
    /\ calls[c].op \in {"chat", "embed"}
    /\ calls[c].retry.pc = "sleep"
    /\ calls' = [calls EXCEPT ![c].retry = retryWake(@)]
    /\ request' = [op |-> calls[c].op, sent |-> TRUE,
                   attempt |-> calls[c].retry.attempt + 1]
    /\ last' = [op |-> "wake", outcome |-> "none", fnInvoked |-> TRUE]
    /\ UNCHANGED <<ragVars, now, breakerVars, retryVars, chatCircuitBreaker,
                   embeddingCircuitBreaker>>

\* chatStream(): the request goes straight to the backend
ChatStream(c) ==
    /\ FreeSlot(c)
    /\ calls' = [calls EXCEPT ![c] = [op |-> "chatStream", retry |-> NoCall.retry]]
    /\ request' = [op |-> "chatStream", sent |-> TRUE, attempt |-> 1]
    /\ last' = [op |-> "call", outcome |-> "passed", fnInvoked |-> TRUE]
    /\ UNCHANGED <<ragVars, now, breakerVars, retryVars, chatCircuitBreaker,
                   embeddingCircuitBreaker>>

\* the stream ends: its last chunk, or an error handed to the error handler
ChatStreamEnds(c) ==
    /\ calls[c].op = "chatStream"
    /\ calls' = [calls EXCEPT ![c] = NoCall]
    /\ request' = [op |-> "chatStream", sent |-> FALSE, attempt |-> 1]
    /\ \E outcome \in {"done", "error"} :
        last' = [op |-> "streamEnd", outcome |-> outcome, fnInvoked |-> FALSE]
    /\ UNCHANGED <<ragVars, now, breakerVars, retryVars, chatCircuitBreaker,
                   embeddingCircuitBreaker>>

\* resetOllamaCircuitBreakers / resetOpenAICircuitBreakers
ResetProviderBreakers ==
    /\ chatCircuitBreaker' = Settled(reset(chatCircuitBreaker, now))
    /\ embeddingCircuitBreaker' = Settled(reset(embeddingCircuitBreaker, now))
    /\ request' = NoRequest
    /\ last' = [op |-> "reset", outcome |-> "none", fnInvoked |-> FALSE]
    /\ UNCHANGED <<ragVars, now, breakerVars, retryVars, calls>>

\* time passes between the steps of the provider's operations
ProviderTick ==
    /\ now < MaxProviderTicks * TickMs
    /\ Tick

NextProvider ==
    \/ Chat
    \/ Embed
    \/ EmbedNothing
    \/ \E c \in 1..MaxCalls : ProviderAttemptSettles(c)
    \/ \E c \in 1..MaxCalls : ProviderRetries(c)
    \/ \E c \in 1..MaxCalls : ChatStream(c)
    \/ \E c \in 1..MaxCalls : ChatStreamEnds(c)
    \/ ResetProviderBreakers
    \/ ProviderTick

SpecProvider == InitProvider /\ [][NextProvider]_vars

\* everything but the retrieval side at rest
IdleResilience ==
    /\ now = 0
    /\ IdleBreaker
    /\ last = [op |-> "new", outcome |-> "none", fnInvoked |-> FALSE]
    /\ retry = IdleRetry(DefaultRetryOptions)
    /\ fnLog = <<>>
    /\ IdleProvider

resilienceVars == <<now, last, breakerVars, retryVars, providerVars>>

(***************************************************************************)
(* One splitTextIntoChunks call on an arbitrary text and configuration     *)
(***************************************************************************)
InitChunk ==
    /\ IdleResilience
    /\ IdleCache
    /\ IdleSearch
    /\ IdleStream
    /\ IdleTurn
    /\ \E text \in StringsUpTo(MaxTextLen), chunkSize \in 1..MaxChunkSize,
          chunkOverlap \in 0..MaxChunkOverlap :
           chunker = NewChunker(text, chunkSize, chunkOverlap)

SplitBegin ==
    /\ chunker.pc = "called"
    /\ chunker' = splitBegin(chunker)
    /\ UNCHANGED <<resilienceVars, cacheVars, searchVars, stream, turn>>

SplitStep ==
    /\ chunker.pc = "loop"
    /\ chunker' = splitStep(chunker)
    /\ UNCHANGED <<resilienceVars, cacheVars, searchVars, stream, turn>>

NextChunk ==
    \/ SplitBegin
    \/ SplitStep

SpecChunk == InitChunk /\ [][NextChunk]_vars

(***************************************************************************)
(* splitTextIntoChunks on the documents of one length under the default    *)
(* configuration                                                           *)
(***************************************************************************)
\* a word of k letters, capitalized or not
Word(k, capital) == [i \in 1..k |-> IF i = 1 /\ capital THEN "A" ELSE "a"]

\* the normalized texts of n characters: words separated by one space, a
\* sentence ending with a period before a space and a capital
RECURSIVE Documents(_, _)
Documents(n, capital) ==
    {Word(n, capital)}
      \cup UNION {{Word(k, capital) \o <<" ">> \o rest : rest \in Documents(n - k - 1, FALSE)} :
                    k \in 1..(n - 2)}
      \cup UNION {{Word(k, capital) \o <<".", " ">> \o rest : rest \in Documents(n - k - 2, TRUE)} :
                    k \in 1..(n - 3)}

InitDocument ==
    /\ IdleResilience
    /\ IdleCache
    /\ IdleSearch
    /\ IdleStream
    /\ IdleTurn
    /\ \E text \in Documents(DocumentLength, TRUE) :
           chunker = NewChunker(text, DocumentChunkSize, DocumentChunkOverlap)

SpecDocument == InitDocument /\ [][NextChunk]_vars

(***************************************************************************)
(* searchRelevantChunks, called by the chat routes and the RAG test route  *)
(***************************************************************************)
\* the embeddings the provider returns for a query: never empty
QueryEmbeddings == Embeddings \ {<<>>}

\* the call up to its first await: on a cache hit it returns, otherwise the
\* SELECT goes to the database
SearchBegin(embedding, options) ==
    /\ search.pc = "idle"
    /\ IF usesCache(options)
       THEN LET g == getCachedResults(cache, embedding, now) IN
            /\ cache' = g.cache
            /\ cacheCall' = [op |-> "get", embedding |-> embedding, value |-> g.value]
            /\ IF g.value.hit
               THEN /\ search' = NoSearch
                    /\ returned' = [kind |-> "hit", embedding |-> embedding,
                                    options |-> options,
                                    results |-> Slice(g.value.results, 0, options.topK),
                                    queried |-> FALSE, rows |-> <<>>]
               ELSE /\ search' = [pc |-> "query", embedding |-> embedding,
                                  options |-> options, rows |-> <<>>]
                    /\ returned' = [NothingReturned EXCEPT !.queried = TRUE]
       ELSE /\ cache' = cache
            /\ cacheCall' = NoCacheCall
            /\ search' = [pc |-> "query", embedding |-> embedding,
                          options |-> options, rows |-> <<>>]
            /\ returned' = [NothingReturned EXCEPT !.queried = TRUE]
    /\ UNCHANGED <<resilienceVars, written, db, route, stream, turn, chunker>>

\* the database runs the SELECT on the tables as they are now
QueryExecutes ==
    /\ search.pc = "query"
    /\ search' = [search EXCEPT !.pc = "rows",
                                !.rows = similarityQuery(db, search.options)]
    /\ cacheCall' = NoCacheCall
    /\ returned' = NothingReturned
    /\ UNCHANGED <<resilienceVars, cache, written, db, route, stream, turn, chunker>>

\* the SELECT fails: searchRelevantChunks rejects
QueryFails ==
    /\ search.pc = "query"
    /\ search' = NoSearch
    /\ cacheCall' = NoCacheCall
    /\ returned' = [kind |-> "error", embedding |-> search.embedding,
                    options |-> search.options, results |-> <<>>, queried |-> FALSE,
                    rows |-> <<>>]
    /\ UNCHANGED <<resilienceVars, cache, written, db, route, stream, turn, chunker>>

\* the rows arrive: deduplicate, cut to topK, store in the cache, return
SearchReturns ==
    /\ search.pc = "rows"
    /\ LET final == finalResults(search.rows, search.options)
           s == setCachedResults(cache, search.embedding, final, now)
       IN  /\ IF usesCache(search.options)
              THEN /\ cache' = s.cache
                   /\ cacheCall' = [op |-> "set", embedding |-> search.embedding,
                                    value |-> Found(final)]
                   /\ written' = noteWritten(written, search.embedding, final, now,
                                             s.evicted, search.options)
              ELSE /\ cache' = cache
                   /\ cacheCall' = NoCacheCall
                   /\ written' = written
           /\ returned' = [kind |-> "miss", embedding |-> search.embedding,
                           options |-> search.options, results |-> final,
                           queried |-> FALSE, rows |-> search.rows]
    /\ search' = NoSearch
    /\ UNCHANGED <<resilienceVars, db, route, stream, turn, chunker>>

(***************************************************************************)
(* The admin routes that change the documents, beside searches             *)
(***************************************************************************)
\* the embeddings of two queries that differ and have the same cache key
NearbyEmbeddings == {e \in QueryEmbeddings : getCacheKey(e) = getCacheKey(<<4>>)}

InitSearch ==
    /\ IdleResilience
    /\ IdleRag

\* POST /api/admin/ingest and POST /api/admin/upload up to embedTexts: the
\* document row is created under a new id and the text is split
IngestBegin(op, d) ==
    /\ route.pc = "idle"
    /\ d \notin db.documents \cup db.deleted
    /\ db' = [db EXCEPT !.documents = @ \cup {d}]
    /\ route' = [op |-> op, pc |-> "embedTexts", ids |-> {d}]
    /\ cacheCall' = NoCacheCall
    /\ returned' = NothingReturned
    /\ UNCHANGED <<resilienceVars, cache, written, search, stream, turn, chunker>>

\* the embeddings arrive: the chunks are inserted and the route responds
IngestChunks ==
    /\ route.pc = "embedTexts"
    /\ db' = [db EXCEPT !.chunks = @ \cup ChunksOf(route.ids)]
    /\ route' = NoRoute
    /\ cacheCall' = NoCacheCall
    /\ returned' = NothingReturned
    /\ UNCHANGED <<resilienceVars, cache, written, search, stream, turn, chunker>>

\* embedTexts rejects: the route responds with the error, the document row stays
IngestFails ==
    /\ route.pc = "embedTexts"
    /\ route' = NoRoute
    /\ cacheCall' = NoCacheCall
    /\ returned' = NothingReturned
    /\ UNCHANGED <<resilienceVars, cache, written, db, search, stream, turn, chunker>>

\* the rows of the documents ids leave the tables, their chunks with them
deleteDocuments(tables, ids) ==
    [documents |-> tables.documents \ ids,
     chunks |-> tables.chunks \ ChunksOf(ids),
     deleted |-> tables.deleted \cup (tables.documents \cap ids)]

\* DELETE /api/admin/documents/[id] for a document that exists
DeleteDocument(d) ==
    /\ route.pc = "idle"
    /\ d \in db.documents
    /\ db' = deleteDocuments(db, {d})
    /\ cacheCall' = NoCacheCall
    /\ returned' = NothingReturned
    /\ UNCHANGED <<resilienceVars, cache, written, search, route, stream, turn, chunker>>

\* DELETE /api/admin/documents/bulk up to the end of deleteMany
BulkDelete(ids) ==
    /\ route.pc = "idle"
    /\ db' = deleteDocuments(db, ids)
    /\ route' = [op |-> "bulk", pc |-> "deleteMany", ids |-> ids]
    /\ cacheCall' = NoCacheCall
    /\ returned' = NothingReturned
    /\ UNCHANGED <<resilienceVars, cache, written, search, stream, turn, chunker>>

\* deleteMany has resolved: clearCache() and the response
BulkDeleteClears ==
    /\ route.pc = "deleteMany"
    /\ cache' = clearCache(cache)
    /\ written' = [k \in CacheKeys |-> NotWritten]
    /\ route' = NoRoute
    /\ cacheCall' = [op |-> "clear", embedding |-> <<>>, value |-> Null]
    /\ returned' = NothingReturned
    /\ UNCHANGED <<resilienceVars, db, search, stream, turn, chunker>>

NextSearch ==
    \/ \E e \in NearbyEmbeddings, o \in SearchOptions : SearchBegin(e, o)
    \/ QueryExecutes
    \/ QueryFails
    \/ SearchReturns
    \/ \E op \in {"ingest", "upload"}, d \in Docs : IngestBegin(op, d)
    \/ IngestChunks
    \/ IngestFails
    \/ \E d \in Docs : DeleteDocument(d)
    \/ \E ids \in (SUBSET Docs) \ {{}} : BulkDelete(ids)
    \/ BulkDeleteClears

SpecSearch == InitSearch /\ [][NextSearch]_vars

(***************************************************************************)
(* One chatStream call, its upstream and its consumer                      *)
(***************************************************************************)
LinesOfRead == UNION {[1..n -> OllamaLines] : n \in 1..MaxLines}

streamUnchanged ==
    UNCHANGED <<resilienceVars, cacheVars, searchVars, turn, chunker>>

ChatStreamBegin(provider, signal) ==
    /\ ~streamActive(stream)
    /\ stream' = chatStream(provider, signal)

\* controller.abort() of the consumer
SignalFires ==
    /\ streamActive(stream)
    /\ stream.signal = "live"
    /\ stream' = [stream EXCEPT !.signal = "aborted"]

\* openai.chat.completions.create / fetch resolve with a response
RequestResolves ==
    /\ stream.pc = "request"
    /\ ~rejectsOnAbort(stream)
    /\ stream' = [stream EXCEPT !.pc = "waiting"]

\* the request rejects, or the response is not ok or has no body
RequestRejects ==
    /\ stream.pc = "request"
    /\ stream' = streamThrows(stream, IF rejectsOnAbort(stream) THEN "abort" ELSE "upstream")

\* the upstream delivers: one chunk (OpenAI) or one read of lines (Ollama)
UpstreamDelivers ==
    /\ stream.pc = "waiting"
    /\ ~rejectsOnAbort(stream)
    /\ stream.yielded < MaxStreamChunks
    /\ \/ /\ stream.provider = "openai"
          /\ \E chunk \in OpenAIChunks : stream' = openaiChunk(stream, chunk)
       \/ /\ stream.provider = "ollama"
          /\ \E lines \in LinesOfRead : stream' = ollamaLines(stream, lines)

\* the upstream ends without a final chunk; Ollama may have one more
\* parsable line left in its buffer
UpstreamEnds ==
    /\ stream.pc = "waiting"
    /\ ~rejectsOnAbort(stream)
    /\ \/ stream' = streamCompletes(stream)
       \/ /\ stream.provider = "ollama"
          /\ stream' = streamYields(stream, TRUE, <<>>)

\* the upstream fails, or the read rejects because the signal fired
UpstreamFails ==
    /\ stream.pc = "waiting"
    /\ stream' = streamThrows(stream, IF rejectsOnAbort(stream) THEN "abort" ELSE "upstream")

ConsumerNext ==
    /\ stream.pc = "yielded"
    /\ stream' = streamResumes(stream)

StreamStep ==
    \/ SignalFires
    \/ RequestResolves
    \/ RequestRejects
    \/ UpstreamDelivers
    \/ UpstreamEnds
    \/ UpstreamFails

InitStream == IdleResilience /\ IdleRag

NextStream ==
    \/ \E provider \in Providers, signal \in Signals :
           ChatStreamBegin(provider, signal) /\ streamUnchanged
    \/ SignalFires /\ streamUnchanged
    \/ RequestResolves /\ streamUnchanged
    \/ RequestRejects /\ streamUnchanged
    \/ UpstreamDelivers /\ streamUnchanged
    \/ UpstreamEnds /\ streamUnchanged
    \/ UpstreamFails /\ streamUnchanged
    \/ ConsumerNext /\ streamUnchanged

SpecStream == InitStream /\ [][NextStream]_vars

(***************************************************************************)
(* Chat turns, one at a time; the streaming route consumes chatStream      *)
(***************************************************************************)
CallOutcomes == {"ok", "throws"}

\* prisma.message.create of the assistant message, then conversation.update
PersistOutcomes == {"ok", "createFails", "updateFails"}

turnUnchanged == UNCHANGED <<resilienceVars, cacheVars, searchVars, chunker>>

\* the request passed authentication, validation and the ownership check
TurnBegin(kind) ==
    /\ turn.pc \in {"idle", "done"}
    /\ turn' = [NoTurn EXCEPT !.pc = "userMessage", !.kind = kind]
    /\ stream' = NoStream

\* prisma.message.create of the user message (and the title update)
PersistUserMessage(outcome) ==
    /\ turn.pc = "userMessage"
    /\ turn' = IF outcome = "ok"
               THEN [turn EXCEPT !.pc = "hasChunks", !.steps = Append(@, "persistUser")]
               ELSE turnFails(turn, "userMessage")
    /\ UNCHANGED stream

\* hasAnyChunks(), outside the inner try
HasAnyChunks(outcome) ==
    /\ turn.pc = "hasChunks"
    /\ turn' = CASE outcome = "some" ->
                      [turn EXCEPT !.pc = "embed", !.steps = Append(@, "retrieve")]
                 [] outcome = "none" ->
                      [turn EXCEPT !.pc = "history", !.steps = Append(@, "retrieve")]
                 [] OTHER -> turnFails(turn, "hasAnyChunks")
    /\ UNCHANGED stream

EmbedText(outcome) ==
    /\ turn.pc = "embed"
    /\ turn' = IF outcome = "ok" THEN [turn EXCEPT !.pc = "search"]
               ELSE retrievalFails(turn)
    /\ UNCHANGED stream

SearchRelevantChunks(outcome) ==
    /\ turn.pc = "search"
    /\ \/ /\ outcome = "ok"
          /\ \E chunks \in Contexts :
                 turn' = [turn EXCEPT !.pc = "history", !.context = chunks]
       \/ /\ outcome = "throws"
          /\ turn' = retrievalFails(turn)
    /\ UNCHANGED stream

\* the history query, buildPrompt, and the call of the generation: the
\* blocking route awaits chatCompletion, the streaming route returns the
\* Response whose start() calls provider.chatStream without a signal
BuildPromptAndCall(outcome, provider) ==
    /\ turn.pc = "history"
    /\ IF outcome = "throws"
       THEN /\ turn' = turnFails(turn, "history")
            /\ UNCHANGED stream
       ELSE LET built == [turn EXCEPT !.prompt = [built |-> TRUE, contextChunks |-> turn.context],
                                      !.steps = @ \o <<"buildPrompt", "callProvider">>,
                                      !.generation = "called"]
            IN  IF turn.kind = "blocking"
                THEN /\ turn' = [built EXCEPT !.pc = "generate"]
                     /\ UNCHANGED stream
                ELSE /\ turn' = [built EXCEPT !.pc = "streaming", !.response = "stream"]
                     /\ stream' = chatStream(provider, "none")

\* blocking route: chatCompletion resolves or rejects
ChatCompletion(outcome) ==
    /\ turn.pc = "generate"
    /\ turn' = IF outcome = "ok"
               THEN [turn EXCEPT !.pc = "persist", !.generation = "succeeded"]
               ELSE turnFails([turn EXCEPT !.generation = "failed"], "generation")
    /\ UNCHANGED stream

\* blocking route: the assistant message, the conversation timestamp, the
\* JSON response
PersistAssistant(outcome) ==
    /\ turn.pc = "persist"
    /\ turn' = CASE outcome = "ok" ->
                      [turn EXCEPT !.pc = "done", !.response = "message",
                                   !.assistantMessages = @ + 1,
                                   !.steps = Append(@, "persistAssistant")]
                 [] outcome = "updateFails" ->
                      turnFails([turn EXCEPT !.assistantMessages = @ + 1,
                                             !.steps = Append(@, "persistAssistant")],
                                "persist")
                 [] OTHER -> turnFails(turn, "persist")
    /\ UNCHANGED stream

\* streaming route: the body of the for-await loop for one chunk, then the
\* request for the next; a throw in the body ends the loop, which returns
\* the generator, and goes to catch and finally
RouteConsumes(outcome) ==
    /\ turn.pc = "streaming"
    /\ stream.pc = "yielded"
    /\ IF ~persistsOn(stream.lastDone)
       THEN /\ turn' = [turn EXCEPT !.events = @ \cup {"chunk"}]
            /\ stream' = streamResumes(stream)
       ELSE CASE outcome = "ok" ->
                   /\ turn' = [turn EXCEPT !.events = @ \cup {"chunk", "final"},
                                           !.assistantMessages = @ + 1,
                                           !.steps = Append(@, "persistAssistant")]
                   /\ stream' = streamResumes(stream)
              [] outcome = "updateFails" ->
                   /\ turn' = [turn EXCEPT !.pc = "done", !.failedAt = "persist",
                                           !.events = @ \cup {"chunk", "error"},
                                           !.assistantMessages = @ + 1,
                                           !.steps = Append(@, "persistAssistant")]
                   /\ stream' = streamCompletes(stream)
              [] OTHER ->
                   /\ turn' = [turn EXCEPT !.pc = "done", !.failedAt = "persist",
                                           !.events = @ \cup {"chunk", "error"}]
                   /\ stream' = streamCompletes(stream)

\* streaming route: the generator completed; finally closes the response
RouteStreamEnds ==
    /\ turn.pc = "streaming"
    /\ stream.pc = "completed"
    /\ turn' = [turn EXCEPT !.pc = "done", !.generation = "succeeded"]
    /\ UNCHANGED stream

\* streaming route: the generator threw; catch sends the error event
RouteStreamThrows ==
    /\ turn.pc = "streaming"
    /\ stream.pc = "thrown"
    /\ turn' = [turn EXCEPT !.pc = "done", !.generation = "failed",
                            !.failedAt = "generation", !.events = @ \cup {"error"}]
    /\ UNCHANGED stream

\* the provider's generator and its upstream while the route waits for it
ProviderStreams ==
    /\ turn.pc = "streaming"
    /\ StreamStep
    /\ UNCHANGED turn

InitTurn == IdleResilience /\ IdleRag

NextTurn ==
    \/ \E kind \in TurnKinds : TurnBegin(kind) /\ turnUnchanged
    \/ \E outcome \in CallOutcomes : PersistUserMessage(outcome) /\ turnUnchanged
    \/ \E outcome \in {"some", "none", "throws"} : HasAnyChunks(outcome) /\ turnUnchanged
    \/ \E outcome \in CallOutcomes : EmbedText(outcome) /\ turnUnchanged
    \/ \E outcome \in CallOutcomes : SearchRelevantChunks(outcome) /\ turnUnchanged
    \/ \E outcome \in CallOutcomes, provider \in Providers :
           BuildPromptAndCall(outcome, provider) /\ turnUnchanged
    \/ \E outcome \in CallOutcomes : ChatCompletion(outcome) /\ turnUnchanged
    \/ \E outcome \in PersistOutcomes : PersistAssistant(outcome) /\ turnUnchanged
    \/ \E outcome \in PersistOutcomes : RouteConsumes(outcome) /\ turnUnchanged
    \/ RouteStreamEnds /\ turnUnchanged
    \/ RouteStreamThrows /\ turnUnchanged
    \/ ProviderStreams /\ turnUnchanged

SpecTurn == InitTurn /\ [][NextTurn]_vars

(***************************************************************************)
(* buildPrompt (lib/rag/prompt); the content of the system message is the  *)
(* sequence of its parts                                                   *)
(***************************************************************************)
DEFAULT_SYSTEM_PROMPT == "You are VS Buddy"

Part(kind, text) ==
    [kind |-> kind, text |-> text, index |-> 0, documentTitle |-> "", relevance |-> 0]

RAG_INSTRUCTIONS == Part("instructions", "IMPORTANT INSTRUCTIONS")

NO_CONTEXT_INSTRUCTIONS == Part("instructions", "NOTE: No relevant information was found")

\* Math.round(similarity * 100) rounding down; similarities in thousandths
relevanceOf_floor(similarity) == similarity \div 10

\* Math.round(similarity * 100): to the nearest integer, a half upwards
relevanceOf(similarity) == (similarity + 5) \div 10

\* "[i. title | r% match]\n content"
attributedBlock(chunk, i) ==
    <<[kind |-> "header", text |-> "", index |-> i,
       documentTitle |-> chunk.documentTitle,
       relevance |-> relevanceOf(chunk.similarity)],
      Part("content", chunk.content)>>

RECURSIVE joinBlocks(_, _)
joinBlocks(chunks, i) ==
    IF i > Len(chunks) THEN <<>>
    ELSE attributedBlock(chunks[i], i)
           \o (IF i < Len(chunks) THEN <<Part("separator", "---")>> ELSE <<>>)
           \o joinBlocks(chunks, i + 1)

formatContextWithSources(chunks) == joinBlocks(chunks, 1)

buildPrompt(params) ==
    LET base == <<Part("prompt", IF params.systemPrompt = "" THEN DEFAULT_SYSTEM_PROMPT
                                 ELSE params.systemPrompt)>>
        systemContent ==
            IF Len(params.contextChunks) > 0
            THEN base \o <<RAG_INSTRUCTIONS, Part("heading", "CONTEXT FROM KNOWLEDGE BASE:"),
                           Part("rule", "---")>>
                      \o formatContextWithSources(params.contextChunks)
                      \o <<Part("rule", "---")>>
            ELSE base \o <<NO_CONTEXT_INSTRUCTIONS>>
        history == SelectSeq(params.messages,
                             LAMBDA msg : msg.role = "user" \/ msg.role = "assistant")
    IN  <<[role |-> "system", content |-> systemContent]>>
          \o [i \in 1..Len(history) |->
                 [role |-> history[i].role, content |-> <<Part("message", history[i].content)>>]]
          \o <<[role |-> "user", content |-> <<Part("message", params.latestUserMessage)>>]>>

\* chunks by title and similarity in thousandths: halves, a negative score
PromptChunks ==
    {[id |-> "c1", documentId |-> "d1", documentTitle |-> "t1", content |-> "x", similarity |-> 845],
     [id |-> "c2", documentId |-> "d2", documentTitle |-> "t2", content |-> "y", similarity |-> 444],
     [id |-> "c3", documentId |-> "d2", documentTitle |-> "t2", content |-> "z", similarity |-> -25],
     [id |-> "c4", documentId |-> "d1", documentTitle |-> "t1", content |-> "w", similarity |-> 1000]}

HistoryMessages ==
    {[id |-> "m1", role |-> "user", content |-> "u"],
     [id |-> "m2", role |-> "assistant", content |-> "a"],
     [id |-> "m3", role |-> "system", content |-> "s"]}

SeqsUpTo(S, n) == UNION {[1..k -> S] : k \in 0..n}

BuildPromptParams ==
    [systemPrompt : {"", "custom"},
     contextChunks : SeqsUpTo(PromptChunks, MaxContext),
     messages : SeqsUpTo(HistoryMessages, MaxHistory),
     latestUserMessage : {"q"}]

InitPrompt ==
    /\ IdleResilience
    /\ IdleCache
    /\ IdleSearch
    /\ IdleStream
    /\ IdleChunker
    /\ \E params \in BuildPromptParams :
           turn = [pc |-> "params", params |-> params, messages |-> <<>>]

BuildPrompt ==
    /\ turn.pc = "params"
    /\ turn' = [turn EXCEPT !.pc = "built", !.messages = buildPrompt(turn.params)]
    /\ UNCHANGED <<resilienceVars, cacheVars, searchVars, stream, chunker>>

SpecPrompt == InitPrompt /\ [][BuildPrompt]_vars

(***************************************************************************)
(* The chat-generation requests of the two chat routes and the breakers    *)
(* they meet: cb is chatCircuitBreaker of lib/openai, chatCircuitBreaker   *)
(* is the one of the configured provider                                   *)
(***************************************************************************)
\* config.llmProvider is fixed for the process; request carries it along
NoChatRequest(configured) ==
    [op |-> "none", route |-> "none", configured |-> configured,
     backend |-> "none", sent |-> FALSE, failed |-> FALSE]

InitChatPaths ==
    /\ now = 0
    /\ cb = NewCircuitBreaker(ProviderBreakerOptions, 0)
    /\ inflight = 0
    /\ last = [op |-> "new", outcome |-> "none", fnInvoked |-> FALSE]
    /\ observerCalls = <<>>
    /\ consecFail = 0
    /\ consecSucc = 0
    /\ retry = IdleRetry(DefaultRetryOptions)
    /\ fnLog = <<>>
    /\ chatCircuitBreaker = NewCircuitBreaker(ProviderBreakerOptions, 0)
    /\ embeddingCircuitBreaker = NewCircuitBreaker(ProviderBreakerOptions, 0)
    /\ calls = [c \in 1..MaxCalls |-> NoCall]
    /\ \E configured \in Providers : request = NoChatRequest(configured)
    /\ IdleRag

chatPathsUnchanged ==
    UNCHANGED <<ragVars, inflight, consecFail, consecSucc, retryVars, calls>>

\* POST /api/chat: chatCompletion of lib/openai, from the call to its
\* outcome: its own breaker's execute around withRetry around the OpenAI
\* request, whatever provider is configured
BlockingRouteChat(succeeds) ==
    /\ cb.failureCount < MaxProviderFailures
    /\ LET r == canAttempt(cb, now)
           b == IF ~r.allowed THEN r.cb
                ELSE IF succeeds THEN recordSuccess(r.cb) ELSE recordFailure(r.cb, now)
       IN  /\ cb' = Settled(b)
           /\ observerCalls' = b.notified
           /\ request' = [op |-> "chat", route |-> "blocking",
                          configured |-> request.configured, backend |-> "openai",
                          sent |-> r.allowed, failed |-> ~r.allowed \/ ~succeeds]
           /\ last' = [op |-> "execute",
                       outcome |-> IF r.allowed THEN "passed" ELSE "CircuitOpen",
                       fnInvoked |-> r.allowed]
    /\ UNCHANGED <<now, chatCircuitBreaker, embeddingCircuitBreaker>>
    /\ chatPathsUnchanged

\* POST /api/chat/stream: getProvider().chatStream, from the call to the end
\* of the stream: no breaker and no retry around the request
StreamRouteChat(succeeds) ==
    /\ request' = [op |-> "chatStream", route |-> "stream",
                   configured |-> request.configured, backend |-> request.configured,
                   sent |-> TRUE, failed |-> ~succeeds]
    /\ last' = [op |-> "call", outcome |-> "passed", fnInvoked |-> TRUE]
    /\ observerCalls' = <<>>
    /\ UNCHANGED <<now, cb, chatCircuitBreaker, embeddingCircuitBreaker>>
    /\ chatPathsUnchanged

\* getProvider().chat(), which no chat route calls: the provider's breaker
\* around withRetry around the request
ProviderChat(succeeds) ==
    /\ chatCircuitBreaker.failureCount < MaxProviderFailures
    /\ LET r == canAttempt(chatCircuitBreaker, now)
           b == IF ~r.allowed THEN r.cb
                ELSE IF succeeds THEN recordSuccess(r.cb) ELSE recordFailure(r.cb, now)
       IN  /\ chatCircuitBreaker' = Settled(b)
           /\ observerCalls' = b.notified
           /\ request' = [op |-> "chat", route |-> "none",
                          configured |-> request.configured, backend |-> request.configured,
                          sent |-> r.allowed, failed |-> ~r.allowed \/ ~succeeds]
           /\ last' = [op |-> "execute",
                       outcome |-> IF r.allowed THEN "passed" ELSE "CircuitOpen",
                       fnInvoked |-> r.allowed]
    /\ UNCHANGED <<now, cb, embeddingCircuitBreaker>>
    /\ chatPathsUnchanged

\* resetOpenAICircuitBreakers / resetOllamaCircuitBreakers of the provider
\* and resetCircuitBreakers of lib/openai: exported, called by no route
ResetChatBreakers(legacy) ==
    /\ IF legacy
       THEN /\ cb' = Settled(reset(cb, now))
            /\ UNCHANGED <<chatCircuitBreaker, embeddingCircuitBreaker>>
       ELSE /\ chatCircuitBreaker' = Settled(reset(chatCircuitBreaker, now))
            /\ embeddingCircuitBreaker' = Settled(reset(embeddingCircuitBreaker, now))
            /\ UNCHANGED cb
    /\ request' = NoChatRequest(request.configured)
    /\ last' = [op |-> "reset", outcome |-> "none", fnInvoked |-> FALSE]
    /\ observerCalls' = <<>>
    /\ UNCHANGED now
    /\ chatPathsUnchanged

ChatPathsTick ==
    /\ now < MaxProviderTicks * TickMs
    /\ now' = now + TickMs
    /\ request' = NoChatRequest(request.configured)
    /\ last' = [op |-> "tick", outcome |-> "none", fnInvoked |-> FALSE]
    /\ observerCalls' = <<>>
    /\ UNCHANGED <<cb, chatCircuitBreaker, embeddingCircuitBreaker>>
    /\ chatPathsUnchanged

NextChatPaths ==
    \/ \E succeeds \in BOOLEAN : BlockingRouteChat(succeeds)
    \/ \E succeeds \in BOOLEAN : StreamRouteChat(succeeds)
    \/ \E succeeds \in BOOLEAN : ProviderChat(succeeds)
    \/ \E legacy \in BOOLEAN : ResetChatBreakers(legacy)
    \/ ChatPathsTick

SpecChatPaths == InitChatPaths /\ [][NextChatPaths]_vars

(***************************************************************************)
(* The end of a search whose query returned arbitrary rows                 *)
(***************************************************************************)
\* contents of two characters: letters of either case, a period, whitespace
Contents == [1..2 -> Chars]

RowIds == <<"r1", "r2", "r3", "r4", "r5">>

\* the rows of a query in the order the database returns them
RowsOf(contents) ==
    [i \in 1..Len(contents) |->
        [id |-> RowIds[i], documentId |-> "d1", documentTitle |-> "t1",
         content |-> contents[i], similarity |-> 9 - i]]

CandidateLists ==
    {RowsOf(contents) : contents \in UNION {[1..n -> Contents] : n \in 0..MaxCandidates}}

InitDedup ==
    /\ IdleResilience
    /\ IdleCache
    /\ db = EmptyTables
    /\ route = NoRoute
    /\ returned = NothingReturned
    /\ \E rows \in CandidateLists, topK \in 1..MaxTopK :
           search = [pc |-> "rows", embedding |-> <<4>>,
                     options |-> [DefaultSearchOptions EXCEPT !.topK = topK],
                     rows |-> rows]
    /\ IdleStream
    /\ IdleTurn
    /\ IdleChunker

\* searchRelevantChunksHybrid once its own query has returned: deduplicate
\* and cut to topK, without the cache
HybridSearchReturns ==
    /\ search.pc = "rows"
    /\ returned' = [kind |-> "hybrid", embedding |-> search.embedding,
                    options |-> search.options,
                    results |-> finalResults(search.rows, search.options),
                    queried |-> FALSE, rows |-> search.rows]
    /\ search' = NoSearch
    /\ cacheCall' = NoCacheCall
    /\ UNCHANGED <<resilienceVars, cache, written, db, route, stream, turn, chunker>>

NextDedup ==
    \/ SearchReturns
    \/ HybridSearchReturns
    \/ \E topK \in 1..MaxTopK :
           SearchBegin(<<4>>, [DefaultSearchOptions EXCEPT !.topK = topK])
    \/ QueryExecutes
    \/ QueryFails

SpecDedup == InitDedup /\ [][NextDedup]_vars

(***************************************************************************)
(* The cache under arbitrary calls of its functions, beside searches       *)
(***************************************************************************)
\* result lists handed to setCachedResults
ResultLists == {<<>>, BySimilarity(ChunksOf({"d1"}))}

\* both documents ingested
FullTables == [documents |-> Docs, chunks |-> Corpus, deleted |-> {}]

InitCache ==
    /\ IdleResilience
    /\ IdleCache
    /\ db = FullTables
    /\ search = NoSearch
    /\ route = NoRoute
    /\ returned = NothingReturned
    /\ IdleStream
    /\ IdleTurn
    /\ IdleChunker

SetCachedResults(embedding, results) ==
    /\ LET s == setCachedResults(cache, embedding, results, now) IN
        /\ cache' = s.cache
        /\ written' = noteWritten(written, embedding, results, now, s.evicted,
                                  DefaultSearchOptions)
    /\ cacheCall' = [op |-> "set", embedding |-> embedding, value |-> Found(results)]
    /\ returned' = NothingReturned
    /\ UNCHANGED <<resilienceVars, db, search, route, stream, turn, chunker>>

GetCachedResults(embedding) ==
    /\ LET g == getCachedResults(cache, embedding, now) IN
        /\ cache' = g.cache
        /\ cacheCall' = [op |-> "get", embedding |-> embedding, value |-> g.value]
    /\ returned' = NothingReturned
    /\ UNCHANGED <<resilienceVars, written, db, search, route, stream, turn, chunker>>

ClearCache ==
    /\ cache' = clearCache(cache)
    /\ written' = [k \in CacheKeys |-> NotWritten]
    /\ cacheCall' = [op |-> "clear", embedding |-> <<>>, value |-> Null]
    /\ returned' = NothingReturned
    /\ UNCHANGED <<resilienceVars, db, search, route, stream, turn, chunker>>

\* Date.now() is followed from 0 to the moment an entry written at 0 is
\* last valid, and from there by the millisecond
CacheTick ==
    /\ now < CACHE_TTL_MS + MaxLate
    /\ now' = IF now < CACHE_TTL_MS THEN CACHE_TTL_MS ELSE now + 1
    /\ cacheCall' = NoCacheCall
    /\ returned' = NothingReturned
    /\ UNCHANGED <<last, breakerVars, retryVars, providerVars, cache, written, db,
                   search, route, stream, turn, chunker>>

NextCache ==
    \/ \E e \in Embeddings, r \in ResultLists : SetCachedResults(e, r)
    \/ \E e \in Embeddings : GetCachedResults(e)
    \/ ClearCache
    \/ CacheTick
    \/ \E e \in QueryEmbeddings : SearchBegin(e, DefaultSearchOptions)
    \/ QueryExecutes
    \/ QueryFails
    \/ SearchReturns

SpecCache == InitCache /\ [][NextCache]_vars

(***************************************************************************)
(* Properties of the CircuitBreaker                                        *)
(***************************************************************************)

C2_OpenRejects ==
    [][(cb.state = "OPEN" /\ now < cb.nextAttempt /\ last'.op = "execute") =>
        /\ last'.outcome = "CircuitOpen"
        /\ ~last'.fnInvoked
        /\ inflight' = inflight
        /\ cb'.state = cb.state
        /\ cb'.failureCount = cb.failureCount
        /\ cb'.successCount = cb.successCount
        /\ cb'.nextAttempt = cb.nextAttempt
    ]_vars

C2_Witness ==
    /\ last.op = "execute"
    /\ last.outcome = "CircuitOpen"
    /\ cb.state = "OPEN"
    /\ now < cb.nextAttempt

C5_HalfOpenFailureReopens ==
    [][(cb.state = "HALF_OPEN" /\ last'.op = "rejected") =>
        /\ cb'.state = "OPEN"
        /\ cb'.nextAttempt = now + cb.options.timeout
    ]_vars

\* C6: every change of the state value, by any operation, invokes the
\* onStateChange observer exactly once with (previous, new); the observer is
\* not invoked when the state does not change.
C6_ObserverOnEveryChange ==
    [][IF cb'.state # cb.state
       THEN observerCalls' = << <<cb.state, cb'.state>> >>
       ELSE observerCalls' = <<>>
    ]_vars
(***************************************************************************)
(* Properties of the provider operations                                   *)
(***************************************************************************)
\* what one recorded success does to the counters of breaker b
OneSuccess(b, b2) ==
    /\ b2.failureCount = 0
    /\ IF b.state = "HALF_OPEN"
       THEN \/ b2.successCount = b.successCount + 1 /\ b2.state = "HALF_OPEN"
            \/ b2.successCount = 0 /\ b2.state = "CLOSED"
       ELSE b2.successCount = b.successCount /\ b2.state = b.state

\* C7: in chat() and embed() the breaker wraps the retry loop: a failed
\* attempt that withRetry retries leaves the breaker untouched, a call that
\* succeeds on any attempt records one success and no failure, a call that
\* fails after its last attempt records exactly one failure.
C7_OneOutcomePerCall ==
    [][last'.op = "settled" =>
        LET b == IF request'.op = "chat" THEN chatCircuitBreaker
                 ELSE embeddingCircuitBreaker
            b2 == IF request'.op = "chat" THEN chatCircuitBreaker'
                  ELSE embeddingCircuitBreaker'
        IN  /\ request'.op = "chat" => embeddingCircuitBreaker' = embeddingCircuitBreaker
            /\ request'.op = "embed" => chatCircuitBreaker' = chatCircuitBreaker
            /\ last'.outcome = "sleep" => b2 = b
            /\ last'.outcome = "returned" => OneSuccess(b, b2)
            /\ last'.outcome = "thrown" =>
                   (b2.failureCount = b.failureCount + 1 /\ b2.successCount = 0)
    ]_vars

C7_Witness ==
    /\ last.op = "settled"
    /\ last.outcome = "thrown"
    /\ request.op = "chat"
    /\ request.attempt = 3
    /\ chatCircuitBreaker.failureCount = 1

\* C8: while the chat breaker is OPEN and now < nextAttempt no request is
\* sent to the backend by chat() or chatStream(), and likewise by embed()
\* for the embedding breaker; a failing chatStream() call is counted by the
\* chat breaker as one failure.
C8_EveryCallGuarded ==
    [][/\ (chatCircuitBreaker.state = "OPEN" /\ now < chatCircuitBreaker.nextAttempt) =>
              ~(request'.sent /\ request'.op \in {"chat", "chatStream"})
       /\ (embeddingCircuitBreaker.state = "OPEN" /\ now < embeddingCircuitBreaker.nextAttempt) =>
              ~(request'.sent /\ request'.op = "embed")
       /\ (last'.op = "streamEnd" /\ last'.outcome = "error") =>
              chatCircuitBreaker'.failureCount = chatCircuitBreaker.failureCount + 1
    ]_vars

(***************************************************************************)
(* Properties of withRetry                                                 *)
(***************************************************************************)
\* fn rejected with an error the call's retry predicate accepts
RetryableFailure(o) ==
    o.kind = "reject" /\ shouldRetry(retry.opts.shouldRetry, o.error, 1)

FailedRetryably(n) ==
    \A i \in 1..n : RetryableFailure(fnLog[i])

\* C9: when the first k attempts fail with retryable errors and attempt k+1
\* succeeds (k < maxAttempts), withRetry returns the value of that attempt
\* and fn was invoked exactly k+1 times; when all maxAttempts attempts fail,
\* fn was invoked exactly maxAttempts times and withRetry rejects with the
\* error of the last attempt itself; fn is not invoked after a success.
C9_RetryCounts ==
    LET N == retry.opts.maxAttempts
        n == Len(fnLog)
    IN  /\ retry.invocations <= N
        /\ (n >= 1 /\ fnLog[n].kind = "resolve" /\ FailedRetryably(n - 1)) =>
               /\ n <= N
               /\ retry.pc = "returned"
               /\ retry.result = [attempt |-> n]
               /\ retry.invocations = n
        /\ (n = N /\ FailedRetryably(N)) =>
               /\ retry.pc = "thrown"
               /\ retry.invocations = N
               /\ retry.thrown = [shape |-> fnLog[N].error, origin |-> N]
        /\ (n < N /\ FailedRetryably(n)) => retry.pc \in {"idle", "attempt", "sleep"}
        /\ \A i \in 1..n : fnLog[i].kind = "resolve" => (i = n /\ retry.invocations = n)

C9_Witness ==
    /\ retry.opts.maxAttempts = 3
    /\ Len(fnLog) = 3
    /\ FailedRetryably(2)
    /\ fnLog[3].kind = "resolve"
    /\ retry.pc = "returned"
    /\ retry.invocations = 3

\* C10: the delay withRetry waits before the next attempt (the value given
\* to onRetry and to sleep) is at least 0 and at most maxDelayMs.
C10_DelayWithinCap ==
    retry.pc = "sleep" => (retry.delayMs >= 0 /\ retry.delayMs <= retry.opts.maxDelayMs)
(***************************************************************************)
(* Properties of the similarity cache                                      *)
(***************************************************************************)
\* C11: after setCachedResults(e, r) at time t, with no clearCache and no
\* eviction of the key since, getCachedResults(e') for every e' with the key
\* of e returns r at every time up to t + 5 minutes, and null at every later
\* time, when the read also removes the entry; so a searchRelevantChunks
\* call without filters whose embedding has that key returns, up to
\* t + 5 minutes, the first topK of r without sending a similarity query.
C11_CachedWithinTtl ==
    [][LET k == getCacheKey(cacheCall'.embedding)
           w == written[k]
       IN  (cacheCall'.op = "get" /\ w.set) =>
              /\ IF now <= w.timestamp + CACHE_TTL_MS
                 THEN cacheCall'.value = Found(w.results)
                 ELSE cacheCall'.value = Null /\ ~cacheHas(cache', k)
              /\ (search.pc = "idle" /\ returned'.kind # "none"
                    /\ now <= w.timestamp + CACHE_TTL_MS) =>
                     /\ returned'.kind = "hit"
                     /\ ~returned'.queried
                     /\ search'.pc = "idle"
                     /\ returned'.results = Slice(w.results, 0, returned'.options.topK)
    ]_vars

C11_Witness ==
    /\ cacheCall.op = "get"
    /\ cacheCall.embedding = <<-5, 15>>
    /\ cacheCall.value.hit
    /\ cacheCall.value.results # <<>>
    /\ returned.kind = "hit"
    /\ written[getCacheKey(cacheCall.embedding)].set
    /\ now = written[getCacheKey(cacheCall.embedding)].timestamp + CACHE_TTL_MS

\* C12: after any sequence of setCachedResults, getCachedResults and
\* clearCache calls the cache holds at most MAX_CACHE_SIZE entries, and an
\* insertion that would exceed it removes exactly one entry, the one
\* inserted earliest among those present.
C12_AtMostCapacity ==
    [][/\ Len(cache') <= MAX_CACHE_SIZE
       /\ LET k == getCacheKey(cacheCall'.embedding) IN
          (cacheCall'.op = "set" /\ Len(cache) = MAX_CACHE_SIZE /\ ~cacheHas(cache, k)) =>
              /\ Len(cache') = MAX_CACHE_SIZE
              /\ \A i \in 1..(MAX_CACHE_SIZE - 1) : cache'[i] = cache[i + 1]
              /\ cache'[MAX_CACHE_SIZE].key = k
    ]_vars

(***************************************************************************)
(* Properties of retrieval                                                 *)
(***************************************************************************)
\* C13: every route that changes the documents clears the cache before it
\* completes, so a search answered from the cache never returns a chunk of a
\* deleted document and never leaves out a chunk, of a document ingested
\* before the search started, that the same search run on the tables
\* would return.
C13_CacheFollowsDocuments ==
    [][/\ returned'.kind = "hit" =>
            /\ \A i \in 1..Len(returned'.results) :
                   returned'.results[i].documentId \notin db.deleted
            /\ written[getCacheKey(returned'.embedding)].byOptions = <<returned'.options>> =>
                   LET fresh == finalResults(similarityQuery(db, returned'.options),
                                             returned'.options)
                   IN  \A i \in 1..Len(fresh) :
                           \E j \in 1..Len(returned'.results) :
                               returned'.results[j] = fresh[i]
       /\ ((db' # db \/ route.pc # "idle") /\ route'.pc = "idle") =>
              cacheCall'.op = "clear"
    ]_vars

\* C14: every list a searchRelevantChunks call with options {topK,
\* minSimilarity} returns has at most topK entries, each of similarity >=
\* minSimilarity, in non-increasing order of similarity.
C14_ResultsWithinOptions ==
    [][returned'.kind \in {"hit", "miss"} =>
        LET r == returned'.results
            o == returned'.options
        IN  /\ Len(r) <= o.topK
            /\ \A i \in 1..Len(r) : r[i].similarity >= o.minSimilarity
            /\ \A i \in 1..Len(r), j \in 1..Len(r) :
                   i < j => r[i].similarity >= r[j].similarity
    ]_vars

\* the indices of the rows that are the first of their signature
FirstOfSignature(rows) ==
    {i \in 1..Len(rows) :
        \A j \in 1..(i - 1) : signature(rows[j].content) # signature(rows[i].content)}

\* C15: no two chunks of the list searchRelevantChunks or
\* searchRelevantChunksHybrid returns have the same signature (the first
\* SignatureLength characters of the lowercased, whitespace-collapsed,
\* trimmed content); of the candidates with one signature the earliest is
\* the one kept, and the kept chunks stay in candidate order: the list is
\* the first topK of the candidates that are the first of their signature.
C15_OnePerSignature ==
    [][returned'.kind \in {"hit", "miss", "hybrid"} =>
        LET r == returned'.results
            rows == returned'.rows
            first == FirstOfSignature(rows)
        IN  /\ \A i \in 1..Len(r), j \in 1..Len(r) :
                   i # j => signature(r[i].content) # signature(r[j].content)
            /\ returned'.kind # "hit" =>
                   /\ Len(r) = Min(returned'.options.topK, Cardinality(first))
                   /\ \A n \in 1..Len(r) :
                          \E i \in first :
                              /\ Cardinality({j \in first : j <= i}) = n
                              /\ r[n] = rows[i]
    ]_vars

C15_Witness ==
    /\ returned.kind = "miss"
    /\ Len(returned.rows) = 3
    /\ Len(returned.results) = 2
    /\ returned.results = <<returned.rows[1], returned.rows[3]>>
    /\ returned.rows[1].content # returned.rows[2].content
    /\ signature(returned.rows[1].content) = signature(returned.rows[2].content)
    /\ Len(returned.rows[1].content) > SignatureLength

\* C16: for both providers, once the consumer's signal has fired the
\* generator yields no further chunk and does not end by throwing an error
\* that the signal caused.
C16_CleanCancellation ==
    [][stream.signal = "aborted" =>
          /\ stream'.yielded <= stream.yielded
          /\ ~(stream'.pc = "thrown" /\ stream'.cause = "abort")
    ]_vars

\* the same of the OpenAI provider alone
C16_OpenAICleanCancellation ==
    [][(stream.signal = "aborted" /\ stream.provider = "openai") =>
          /\ stream'.yielded <= stream.yielded
          /\ stream'.pc = "thrown" => stream.pc = "thrown" \/ stream'.cause = "upstream"
    ]_vars

\* C17: in a chat turn of either route in which embedText or
\* searchRelevantChunks threw, the turn is not ended by that failure: the
\* prompt is built with an empty context list, the generation call is made
\* (unless the history query that precedes it fails), and the turn ends with
\* a response to the user.
C17_RetrievalFailureNotFatal ==
    turn.retrievalFailed =>
        /\ turn.failedAt # "retrieval"
        /\ turn.context = <<>>
        /\ turn.prompt.contextChunks = <<>>
        /\ turn.pc = "done" =>
               /\ turn.response # "none"
               /\ turn.generation # "none" \/ turn.failedAt = "history"

C17_Witness ==
    /\ turn.retrievalFailed
    /\ turn.pc = "done"
    /\ turn.prompt = [built |-> TRUE, contextChunks |-> <<>>]
    /\ turn.generation = "succeeded"
    /\ turn.assistantMessages = 1
    /\ turn.response = "message"

StepOrder == <<"persistUser", "retrieve", "buildPrompt", "callProvider", "persistAssistant">>

\* the generation of the turn has delivered its result: chatCompletion
\* resolved, or the stream yielded its chunk with done and has not thrown
generationDelivered ==
    \/ turn.generation = "succeeded"
    \/ /\ turn.kind = "stream"
       /\ turn.generation = "called"
       /\ stream.lastDone
       /\ stream.pc \in {"yielded", "completed"}

\* C18: the steps of a turn run in the order persist user message, retrieve
\* context, build prompt, call provider, persist assistant message; at most
\* one assistant message is persisted, and only once the generation has
\* delivered its result; when the generation fails, no assistant message is
\* persisted and the turn ends with an error to the caller (an error
\* response, or the error event of the stream).
C18_TurnOrder ==
    /\ turn.steps = SubSeq(StepOrder, 1, Len(turn.steps))
    /\ turn.assistantMessages <= 1
    /\ turn.assistantMessages = 1 => generationDelivered
    /\ turn.generation = "failed" =>
           /\ turn.assistantMessages = 0
           /\ turn.pc = "done"
           /\ turn.response = "error" \/ "error" \in turn.events

C18_Witness ==
    /\ turn.kind = "stream"
    /\ turn.pc = "done"
    /\ turn.steps = StepOrder
    /\ turn.assistantMessages = 1
    /\ turn.generation = "succeeded"
    /\ "final" \in turn.events
    /\ stream.yielded > 1

\* a turn whose generation failed
C18_FailureSurfaced ==
    /\ turn.generation = "failed"
    /\ turn.kind = "stream"
    /\ stream.yielded > 0
    /\ turn.assistantMessages = 0
    /\ "error" \in turn.events

(***************************************************************************)
(* Properties of splitTextIntoChunks                                       *)
(***************************************************************************)
\* C19: splitTextIntoChunks terminates for every text and every
\* configuration with chunkSize >= 1 and chunkOverlap >= 0, chunkOverlap >=
\* chunkSize included: on every iteration of the loop the window start
\* strictly increases, the loop is left as soon as the start reaches the end
\* of the text, and so it runs at most as many times as the text has
\* characters.
C19_Terminates ==
    [][chunker.pc = "loop" =>
        /\ chunker'.start > chunker.start
        /\ chunker.start < Len(chunker.cleanedText)
        /\ chunker'.iterations <= Len(chunker.cleanedText)
        /\ chunker'.pc = IF chunker'.start < Len(chunker.cleanedText)
                         THEN "loop" ELSE "returned"
    ]_vars

C19_Witness ==
    /\ chunker.pc = "returned"
    /\ chunker.iterations >= 3
    /\ chunker.chunkOverlap >= chunker.chunkSize

\* C20: every chunk returned has at most chunkSize characters, and a text
\* whose whitespace-normalized form has at most chunkSize characters yields
\* exactly one chunk, equal to that normalized form.
C20_ChunksWithinSize ==
    /\ \A i \in 1..Len(chunker.chunks) : Len(chunker.chunks[i]) <= chunker.chunkSize
    /\ (chunker.pc = "returned"
          /\ Len(Trim(CollapseWhitespace(chunker.text))) <= chunker.chunkSize) =>
           chunker.chunks = <<Trim(CollapseWhitespace(chunker.text))>>

C20_Witness ==
    /\ chunker.pc = "returned"
    /\ Len(chunker.text) > chunker.chunkSize
    /\ chunker.chunks = <<Trim(CollapseWhitespace(chunker.text))>>
    /\ chunker.chunkSize >= 2

\* C21: for every input text, no element of the list splitTextIntoChunks
\* returns is the empty string.
C21_NoEmptyChunk ==
    \A i \in 1..Len(chunker.chunks) : chunker.chunks[i] # <<>>

\* the same of the texts that are not blank
C21_NoEmptyChunkOfText ==
    Trim(CollapseWhitespace(chunker.text)) # <<>> =>
        \A i \in 1..Len(chunker.chunks) : chunker.chunks[i] # <<>>

\* C22: a document whose normalized text has DocumentLength characters is
\* split, with the default chunkSize and chunkOverlap, into exactly 3 chunks,
\* whichever sentence or word boundaries the window ends are pulled back to.
C22_ThreeChunks ==
    (chunker.pc = "returned" /\ Len(chunker.cleanedText) = DocumentLength) =>
        Len(chunker.chunks) = 3

\* the same of the documents without any whitespace
C22_ThreeChunksOfOneWord ==
    (chunker.pc = "returned" /\ chunker.text = Word(DocumentLength, TRUE)) =>
        Len(chunker.chunks) = 3

\* the percentage nearest to a similarity given in thousandths
NearestPercent(similarity, r) ==
    /\ 10 * r - 5 <= similarity
    /\ similarity < 10 * r + 5

\* C23: buildPrompt returns exactly one system message, first, then the
\* history messages of role user or assistant in their order, then the
\* latest user message; with N >= 1 chunks the system message has N
\* attributed blocks in the chunks' order, block i with index i, the title
\* and the rounded percentage of chunk i; with no chunk it has the no-context
\* instructions and no context block.
C23_PromptLayout ==
    turn.pc = "built" =>
        LET params == turn.params
            m == turn.messages
            system == m[1].content
            headers == SelectSeq(system, LAMBDA part : part.kind = "header")
            history == SelectSeq(params.messages, LAMBDA msg : msg.role # "system")
            N == Len(params.contextChunks)
        IN  /\ m[1].role = "system"
            /\ \A i \in 2..Len(m) : m[i].role # "system"
            /\ Len(m) = Len(history) + 2
            /\ \A i \in 1..Len(history) :
                   /\ m[i + 1].role = history[i].role
                   /\ m[i + 1].content = <<Part("message", history[i].content)>>
            /\ m[Len(m)].role = "user"
            /\ m[Len(m)].content = <<Part("message", params.latestUserMessage)>>
            /\ Len(headers) = N
            /\ \A i \in 1..N :
                   /\ headers[i].index = i
                   /\ headers[i].documentTitle = params.contextChunks[i].documentTitle
                   /\ NearestPercent(params.contextChunks[i].similarity, headers[i].relevance)
            /\ N >= 1 => \A i \in 1..Len(system) : system[i] # NO_CONTEXT_INSTRUCTIONS
            /\ N = 0 => /\ \E i \in 1..Len(system) : system[i] = NO_CONTEXT_INSTRUCTIONS
                        /\ \A i \in 1..Len(system) :
                               system[i].kind \notin {"heading", "header", "content"}

C23_Witness ==
    /\ turn.pc = "built"
    /\ Len(turn.params.contextChunks) = 2
    /\ turn.params.contextChunks[1].similarity = 444
    /\ turn.params.contextChunks[2].similarity = 845
    /\ Len(turn.params.messages) = 3
    /\ turn.params.messages[2].role = "system"
    /\ Len(turn.messages) = 4

\* C24: while the breaker is HALF_OPEN at most one guarded call is in
\* flight, and an execute() call arriving in HALF_OPEN while another call has
\* not settled is not passed through to fn.
C24_SingleTrial ==
    [][/\ cb'.state = "HALF_OPEN" => inflight' <= 1
       /\ (cb.state = "HALF_OPEN" /\ inflight >= 1 /\ last'.op = "execute") =>
              ~last'.fnInvoked
    ]_vars

\* C25: successCount is 0 whenever the state is CLOSED or OPEN; it grows
\* only by a success in HALF_OPEN, and it is 0 after every transition out of
\* HALF_OPEN and after every failure.
C25_SuccessCountOnlyHalfOpen ==
    [][/\ cb'.state \in {"CLOSED", "OPEN"} => cb'.successCount = 0
       /\ cb'.successCount > cb.successCount =>
              cb.state = "HALF_OPEN" /\ last'.op = "resolved"
       /\ (cb.state = "HALF_OPEN" /\ cb'.state # "HALF_OPEN") => cb'.successCount = 0
       /\ last'.op = "rejected" => cb'.successCount = 0
    ]_vars

\* the success that closes the breaker after an earlier one was counted
C25_Witness ==
    /\ cb.state = "CLOSED"
    /\ last.op = "resolved"
    /\ observerCalls = <<<<"HALF_OPEN", "CLOSED">>>>
    /\ cb.options.successThreshold >= 2
    /\ cb.successCount = 0

\* C30: with failureThreshold >= 1, under any interleaving of concurrent
\* execute() calls and reset(), a CLOSED breaker has failureCount below
\* failureThreshold, and no step of execute() takes the breaker from OPEN to
\* CLOSED.
C30_ClosedBelowThreshold ==
    [][/\ cb'.state = "CLOSED" => cb'.failureCount < cb'.options.failureThreshold
       /\ (cb.state = "OPEN" /\ cb'.state = "CLOSED") => last'.op = "reset"
    ]_vars

\* a call passed while CLOSED resolves after the breaker opened
C30_Witness ==
    /\ cb.state = "OPEN"
    /\ last.op = "resolved"
    /\ cb.failureCount = 0
    /\ now < cb.nextAttempt

\* C26: there is one chat breaker for the configured provider and only
\* execute() changes it: every chat-generation request of a chat turn, from
\* either route, goes to the configured provider and its failure is counted
\* by that provider's chat breaker.
C26_OneChatBreaker ==
    [][/\ (request'.route \in {"blocking", "stream"} /\ request'.sent) =>
              /\ request'.backend = request'.configured
              /\ request'.failed =>
                     chatCircuitBreaker'.failureCount = chatCircuitBreaker.failureCount + 1
       /\ chatCircuitBreaker' # chatCircuitBreaker => last'.op = "execute"
       /\ cb' = cb
    ]_vars

\* the classification of a thrown value: status 429, a connection-reset or
\* timeout code, or a status in 500..599 is retryable; any other status in
\* 400..499 is not; every other value is retryable
ClassifiedRetryable(error) ==
    IF \/ error.status = 429
       \/ error.code \in {"ECONNRESET", "ETIMEDOUT"}
       \/ error.status \in 500..599
    THEN TRUE
    ELSE error.status \notin 400..499

\* C27: under the default predicate, when an attempt of withRetry rejects
\* with a value classified as not retryable, withRetry rethrows at once and
\* fn is not invoked again; when it rejects with a value classified as
\* retryable and attempts remain, withRetry goes on to the next attempt.
C27_DefaultClassification ==
    [][(last'.op = "settled" /\ last'.outcome = "reject"
          /\ retry.opts.shouldRetry = "default") =>
          LET error == fnLog'[Len(fnLog')].error IN
          IF ClassifiedRetryable(error)
          THEN retry.attempt < retry.opts.maxAttempts => retry'.pc = "sleep"
          ELSE /\ retry'.pc = "thrown"
               /\ retry'.thrown.shape = error
               /\ retry'.invocations = retry.invocations
    ]_vars

\* the same of the thrown values that are not falsy
C27_ClassificationOfTruthy ==
    [][(last'.op = "settled" /\ last'.outcome = "reject"
          /\ retry.opts.shouldRetry = "default"
          /\ ~fnLog'[Len(fnLog')].error.falsy) =>
          LET error == fnLog'[Len(fnLog')].error IN
          IF ClassifiedRetryable(error)
          THEN retry.attempt < retry.opts.maxAttempts => retry'.pc = "sleep"
          ELSE /\ retry'.pc = "thrown"
               /\ retry'.thrown.shape = error
               /\ retry'.invocations = retry.invocations
    ]_vars

\* C28: an attempt of withRetry whose function has not settled within
\* timeoutMs fails with the timeout error: it is one of the maxAttempts
\* attempts, under the default policy the call sleeps and tries again while
\* attempts remain and throws the timeout error on the last one, and what the
\* function of that attempt delivers afterwards changes nothing: the value
\* returned is the one of an attempt that resolved in time.
C28_TimeoutIsFailedAttempt ==
    [][/\ (last'.op = "settled" /\ last'.outcome = "timeout") =>
            /\ retry'.lastError = [shape |-> TimeoutError, origin |-> retry.attempt]
            /\ retry'.invocations = retry.invocations
            /\ retry.opts.shouldRetry = "default" =>
                 IF retry.attempt < retry.opts.maxAttempts
                 THEN retry'.pc = "sleep" /\ retry'.attempt = retry.attempt
                 ELSE retry'.pc = "thrown" /\ retry'.thrown.shape = TimeoutError
       /\ last'.op = "late" => retry' = retry
       /\ retry'.attempt = retry'.invocations
       /\ retry'.invocations <= retry'.opts.maxAttempts
       /\ retry'.pc = "returned" =>
            /\ retry'.result.attempt = retry'.attempt
            /\ fnLog'[retry'.result.attempt].kind = "resolve"
    ]_vars

\* the first attempt timed out, the second one resolved and was returned, and
\* the function of the first attempt has delivered its result since
C28_Witness ==
    /\ retry.opts.shouldRetry = "default"
    /\ Len(fnLog) = 2
    /\ fnLog[1].kind = "late"
    /\ last.op = "late"
    /\ last.outcome = "resolve"
    /\ retry.pc = "returned"
    /\ retry.result.attempt = 2

\* C29: setCachedResults for a key the cache holds already replaces the entry
\* of that key and removes the entry of no other key, whatever the size of
\* the cache.
C29_ReplaceKeepsOthers ==
    [][(cacheCall'.op = "set" /\ cacheHas(cache, getCacheKey(cacheCall'.embedding))) =>
          \A k \in CacheKeys :
             (cacheHas(cache, k) /\ k # getCacheKey(cacheCall'.embedding)) =>
                 /\ cacheHas(cache', k)
                 /\ cacheGet(cache', k) = cacheGet(cache, k)
    ]_vars

\* the same below the capacity: the replaced entry is the only one touched
C29_ReplaceKeepsOthersBelowCapacity ==
    [][(/\ cacheCall'.op = "set"
        /\ cacheHas(cache, getCacheKey(cacheCall'.embedding))
        /\ Len(cache) < MAX_CACHE_SIZE) =>
          /\ Len(cache') = Len(cache)
          /\ \A k \in CacheKeys :
                (cacheHas(cache, k) /\ k # getCacheKey(cacheCall'.embedding)) =>
                    /\ cacheHas(cache', k)
                    /\ cacheGet(cache', k) = cacheGet(cache, k)
    ]_vars

====
